---- MODULE Spec2Model ----
(***************************************************************************)
(* Coto Sorter: the live sort engine (sorter.js, badges.js, content.js)    *)
(* and the paginated catalogue retrieval (api.js, revista.js).             *)
(*                                                                         *)
(* Prices are integers (cents).  A discount ratio is kept as the pair      *)
(* num/den and an adjusted unit price as the pair listed*num / den; two    *)
(* adjusted prices are compared by cross-multiplication.                   *)
(***************************************************************************)
EXTENDS Integers, Sequences, FiniteSets, TLC

(***************************************************************************)
(* Bounds of the model.                                                    *)
(***************************************************************************)
MaxCards == 4     \* wrappers of a rendered list
MaxLive == 2      \* wrappers the external renderer attaches and detaches
MaxPagesA == 5    \* pages of the largest dialect-A catalogue
MaxPagesB == 8    \* pages of the largest dialect-B catalogue
MaxMantissa == 120 \* leading digits of a formatted amount
MaxProducts == 3   \* products handed to groupAndSortProducts
MaxEntries == 3    \* entries of the network timeline
MaxListings == 2   \* listings the shopper opens during a retrieval call

(***************************************************************************)
(* Program constants.                                                      *)
(***************************************************************************)
DEBOUNCE_MS == 400
\* Granularity of the model's clock.
TickMs == DEBOUNCE_MS

NaN == 0 - 1
Null == "null"

FILTER_TYPES == {"weight", "volume", "100g", "square", "unit"}

Wrappers == 1..MaxCards

VARIABLES
  container,          \* TRUE iff document.querySelector(".productos.row") finds the list
  cards,              \* the .producto-card children of the container, in DOM order
  content,            \* the rendered content of each wrapper
  badgeAttr,          \* BADGE_ATTR of each wrapper: "none" (absent), "done", "no-data"
  isSorting,          \* sorter.js
  currentFilter,      \* sorter.js
  originalOrder,      \* sorter.js: Map(wrapper -> index)
  originalOrderSaved, \* sorter.js
  uiFilter,           \* ui.js: the filter updateButtonStates last highlighted
  timers,             \* pending setTimeout timers: records [id, left, kind]
  debounceTimer,      \* content.js: the handle last returned by setTimeout (0: null)
  rafPending,         \* TRUE iff requestAnimationFrame callbacks await the next frame
  quiet,              \* ms since the observer last (re)armed the debounce timer, capped
  burstRuns,          \* reconcile runs since the observer last armed the timer, capped
  burstNotifs         \* notifications that armed the timer in the current burst, capped

sorterVars == <<container, cards, content, badgeAttr, isSorting, currentFilter,
                originalOrder, originalOrderSaved, uiFilter>>
observerVars == <<timers, debounceTimer, rafPending, quiet, burstRuns, burstNotifs>>

VARIABLES
  pc,                 \* where the retrieval call stands: "idle", "endecaFirst",
                      \* "endecaGroup", "bffWait", "bffFirst", "bffGroup", "resolved", "rejected"
  dialect,            \* the pagination function that is running: "A" (scrapeViaEndeca), "B" (scrapeViaBff)
  totalNumRecs,       \* api.js: the total the first page of the running dialect reported
  nrpp,               \* api.js scrapeViaBff: the page size read from the template
  remaining,          \* api.js: remainingOffsets / pages not yet requested
  group,              \* api.js: the offsets / pages of the group in flight
  inflight,           \* indexes of the group whose response has not arrived
  results,            \* the slots Promise.all fills, one per request of the group
  allProducts,        \* api.js: the products accumulated so far
  requests,           \* every page request the call has issued, in order: <<dialect, key>>
  served,             \* the responses the running dialect received: <<key, kind>>
  outOfOrder,         \* some response of the running dialect overtook an earlier request
  perfBff,            \* the newest dialect-B entry of the Performance timeline
  capturedBffUrl,     \* api.js line 15
  waited,             \* ms waitForBffUrlInPerformance has waited
  uiMessage,          \* what startRevistaGeneration last passed to updateProgressFn
  progressCalls,      \* the progressCallback invocations of the latest step: <<loaded, total>>
  error,              \* the error the call rejected with
  location,           \* window.location: the listing the page address shows
  capturedEndecaUrl,  \* api.js line 14: the listing the captured URL queries (0: null)
  bases               \* the base hrefs the running dialect-A call built its requests from

scrapeVars == <<pc, dialect, totalNumRecs, nrpp, remaining, group, inflight, results,
                allProducts, requests, served, outOfOrder, perfBff, capturedBffUrl,
                waited, uiMessage, progressCalls, error, location, capturedEndecaUrl,
                bases>>
pageVars == <<sorterVars, observerVars>>

VARIABLES
  input,              \* what a normalizer, formatter or grouping function is given
  output              \* what it returned

normVars == <<input, output>>

(***************************************************************************)
(* Generic helpers.                                                        *)
(***************************************************************************)
Range(s) == {s[i] : i \in 1..Len(s)}

Min(a, b) == IF a < b THEN a ELSE b

Max(a, b) == IF a > b THEN a ELSE b

IndexOf(s, x) == CHOOSE i \in 1..Len(s) : s[i] = x

Before(s, x, y) == IndexOf(s, x) < IndexOf(s, y)

RECURSIVE Filter(_, _)
Filter(s, keep) ==
  IF s = <<>> THEN <<>>
  ELSE IF Head(s) \in keep THEN <<Head(s)>> \o Filter(Tail(s), keep)
       ELSE Filter(Tail(s), keep)

(***************************************************************************)
(* utils.js                                                                *)
(***************************************************************************)
\* normalizeUnitType: case-insensitive prefix match of the unit text.
normalizeUnitType(unitText, qty) ==
  CASE unitText \in {"Kilo", "Kilogramo", "Kilogramo escurrido"} -> "weight"
    [] unitText = "Litro" -> "volume"
    [] unitText \in {"Gramo", "Gramos"} /\ qty = "100" -> "100g"
    [] unitText = "Cuadrado" -> "square"
    [] unitText = "Unidad" -> "unit"
    [] OTHER -> Null

(***************************************************************************)
(* Rendered contents.  A content is what extractProductData reads:         *)
(*   productEl : the wrapper holds a catalogue-product element             *)
(*   unit, qty : the groups UNIT_PRICE_REGEX / UNIT_QTY_REGEX match in a   *)
(*               <small> (unit "" when no <small> matches)                 *)
(*   listed    : parsePrice of the matched unit price                      *)
(*   displayed : parsePrice of h4.card-title (NaN when absent)             *)
(*   attr      : parseFloat of data-cnstrc-item-price (NaN when absent)    *)
(*   regText   : parsePrice of the "Precio Regular" text (NaN when absent) *)
(***************************************************************************)
Content(p, u, q, l, d, a, r) ==
  [productEl |-> p, unit |-> u, qty |-> q, listed |-> l, displayed |-> d,
   attr |-> a, regText |-> r]

Blank == Content(FALSE, "", "1", NaN, NaN, NaN, NaN)

KiloPromo == Content(TRUE, "Kilo", "1", 1000, 300, 400, NaN)   \* weight, 1000 * 3/4

KiloPlain == Content(TRUE, "Kilo", "1", 750, 500, NaN, NaN)    \* weight, 750 * 1

KiloHalf == Content(TRUE, "Kilo", "1", 800, 200, NaN, 400)     \* weight, 800 * 1/2

LitroPlain == Content(TRUE, "Litro", "1", 500, 500, 500, NaN)  \* volume, 500 * 1

GramoPlain == Content(TRUE, "Gramos", "1", 900, 900, NaN, NaN) \* per gram: no data

\* The contents a rendered list is drawn from.
Pool == {KiloPromo, KiloPlain, KiloHalf, LitroPlain, GramoPlain}

\* The contents the external renderer attaches while the page is live.
LivePool == {KiloHalf, LitroPlain}

LiveWrappers == 1..MaxLive

\* The filters the modelled shopper picks among FILTER_TYPES.
SortKeys == {"weight", "volume"}

(***************************************************************************)
(* badges.js                                                               *)
(***************************************************************************)
\* The value extractProductData returns for "return null".
NullData ==
  [isNull |-> TRUE, unitType |-> Null, listedUnitPrice |-> 0, displayedPrice |-> NaN,
   regularPrice |-> NaN, ratioNum |-> 1, ratioDen |-> 1, adjNum |-> 0, adjDen |-> 1]

\* A quotient of two prices is a fraction kept in lowest terms.
RECURSIVE Gcd(_, _)
Gcd(a, b) == IF b = 0 THEN a ELSE Gcd(b, a % b)

\* extractProductData without the "Precio Regular" text fallback of lines 56-62.
extractProductDataNoText(c) ==
  IF c.unit = "" THEN NullData
  ELSE LET type == normalizeUnitType(c.unit, c.qty) IN
    IF type = Null THEN NullData
    ELSE IF c.listed = NaN \/ c.listed <= 0 THEN NullData
    ELSE
      LET displayedPrice == c.displayed
          fromAttr == c.attr
          fromText == IF fromAttr = NaN \/ fromAttr <= 0 THEN NaN ELSE fromAttr
          regularPrice == IF fromText = NaN \/ fromText <= 0 THEN displayedPrice
                          ELSE fromText
          discounted == displayedPrice # NaN /\ displayedPrice > 0 /\ regularPrice > 0
          g == IF discounted THEN Gcd(displayedPrice, regularPrice) ELSE 1
          num == IF discounted THEN displayedPrice \div g ELSE 1
          den == IF discounted THEN regularPrice \div g ELSE 1
      IN [isNull |-> FALSE,
          unitType |-> type,
          listedUnitPrice |-> c.listed,
          displayedPrice |-> displayedPrice,
          regularPrice |-> regularPrice,
          ratioNum |-> num,
          ratioDen |-> den,
          adjNum |-> c.listed * num,
          adjDen |-> den]

\* extractProductData(productEl): NullData, or the extracted data.
extractProductData(c) ==
  IF c.unit = "" THEN NullData
  ELSE LET type == normalizeUnitType(c.unit, c.qty) IN
    IF type = Null THEN NullData
    ELSE IF c.listed = NaN \/ c.listed <= 0 THEN NullData
    ELSE
      LET displayedPrice == c.displayed
          fromAttr == c.attr
          fromText == IF fromAttr = NaN \/ fromAttr <= 0 THEN c.regText ELSE fromAttr
          regularPrice == IF fromText = NaN \/ fromText <= 0 THEN displayedPrice
                          ELSE fromText
          discounted == displayedPrice # NaN /\ displayedPrice > 0 /\ regularPrice > 0
          g == IF discounted THEN Gcd(displayedPrice, regularPrice) ELSE 1
          num == IF discounted THEN displayedPrice \div g ELSE 1
          den == IF discounted THEN regularPrice \div g ELSE 1
      IN [isNull |-> FALSE,
          unitType |-> type,
          listedUnitPrice |-> c.listed,
          displayedPrice |-> displayedPrice,
          regularPrice |-> regularPrice,
          ratioNum |-> num,
          ratioDen |-> den,
          adjNum |-> c.listed * num,
          adjDen |-> den]

\* The data sortProducts and injectBadgeOnProduct obtain for a wrapper:
\* wrapper.querySelector("catalogue-product") ? extractProductData(..) : null
wrapperData(c) == IF c.productEl THEN extractProductData(c) ELSE NullData

\* An injection that never sets the processed marker.
injectBadgeUnmarked(c, attr) == attr

\* injectBadgeOnProduct(wrapper): the wrapper's BADGE_ATTR afterwards.
injectBadgeOnProduct(c, attr) ==
  IF ~c.productEl THEN attr
  ELSE IF extractProductData(c).isNull THEN "no-data"
  ELSE "done"

\* injectBadgeOnProduct makes a childList mutation when it removes the existing
\* badge element (present iff the attribute is "done") or inserts a new one.
badgeMutates(c, attr) ==
  c.productEl /\ (attr = "done" \/ ~extractProductData(c).isNull)

\* injectAllBadges(): every .producto-card of the document.
injectAllBadges(cs, cont, attrs) ==
  [w \in Wrappers |->
     IF w \in Range(cs) THEN injectBadgeOnProduct(cont[w], attrs[w]) ELSE attrs[w]]

\* removeAllBadges(): removes every badge element and every BADGE_ATTR.
removeAllBadges(attrs) == [w \in Wrappers |-> "none"]

(***************************************************************************)
(* Array.prototype.sort(compareFn): stable since ES2019.  gt[<<a, b>>] is  *)
(* compareFn(a, b) > 0; an insertion sort that places each element before  *)
(* the first element greater than it.                                      *)
(***************************************************************************)
\* A sort that is not stable: x goes before the first element not less than it.
RECURSIVE InsertUnstable(_, _, _)
InsertUnstable(x, s, gt) ==
  IF s = <<>> THEN <<x>>
  ELSE IF ~gt[<<x, Head(s)>>] THEN <<x>> \o s
  ELSE <<Head(s)>> \o InsertUnstable(x, Tail(s), gt)

RECURSIVE Insert(_, _, _)
Insert(x, s, gt) ==
  IF s = <<>> THEN <<x>>
  ELSE IF gt[<<Head(s), x>>] THEN <<x>> \o s
  ELSE <<Head(s)>> \o Insert(x, Tail(s), gt)

RECURSIVE ArraySort(_, _)
ArraySort(s, gt) ==
  IF s = <<>> THEN <<>>
  ELSE Insert(s[Len(s)], ArraySort(SubSeq(s, 1, Len(s) - 1), gt), gt)

\* An append that leaves the node where it was as well.
appendChildCopy(children, w) == Append(children, w)

\* container.appendChild(w): moves w to the end of the children.
appendChild(children, w) == Append(Filter(children, Range(children) \ {w}), w)

RECURSIVE appendAll(_, _)
appendAll(children, ws) ==
  IF ws = <<>> THEN children
  ELSE appendAll(appendChild(children, Head(ws)), Tail(ws))

(***************************************************************************)
(* sorter.js                                                               *)
(***************************************************************************)
\* Partitioning on "has price data" alone, whatever the category.
hasPriceAnyType(c, filterType) == ~wrapperData(c).isNull

\* sortProducts line 396: item.data && item.data.unitType === filterType
hasPrice(c, filterType) ==
  ~wrapperData(c).isNull /\ wrapperData(c).unitType = filterType

\* Comparing the listed unit prices, the discount left out.
listedGreater(ca, cb) ==
  wrapperData(ca).listedUnitPrice > wrapperData(cb).listedUnitPrice

\* sortProducts line 403: a.data.adjustedUnitPrice - b.data.adjustedUnitPrice > 0
adjustedGreater(ca, cb) ==
  LET a == wrapperData(ca)
      b == wrapperData(cb)
  IN a.adjNum * b.adjDen > b.adjNum * a.adjDen

\* sortProducts lines 386-405: [...withPrice, ...withoutPrice]
sortedItems(wrappers, cont, filterType) ==
  LET with == {w \in Range(wrappers) : hasPrice(cont[w], filterType)}
      withPrice == Filter(wrappers, with)
      withoutPrice == Filter(wrappers, Range(wrappers) \ with)
      gt == [p \in with \X with |-> adjustedGreater(cont[p[1]], cont[p[2]])]
  IN ArraySort(withPrice, gt) \o withoutPrice

\* sortProducts lines 380-384: wrappers.forEach((w, i) => originalOrder.set(w, i))
saveOriginalOrder(wrappers) ==
  [w \in Range(wrappers) |-> IndexOf(wrappers, w) - 1]

\* Recording the order at every sort, not only at the first one.
originalOrderEverySort(saved, oo, wrappers) == saveOriginalOrder(wrappers)

\* sortProducts lines 380-384: the order is recorded on the first sort only.
originalOrderAfter(saved, oo, wrappers) ==
  IF saved THEN oo ELSE saveOriginalOrder(wrappers)

\* resetOrder lines 433-437: (originalOrder.get(a) ?? Infinity) - (.. b ..) > 0
originalGreater(oo, a, b) ==
  CASE a \in DOMAIN oo /\ b \in DOMAIN oo -> oo[a] > oo[b]
    [] a \notin DOMAIN oo /\ b \in DOMAIN oo -> TRUE     \* Infinity - n
    [] OTHER -> FALSE                                    \* n - Infinity, NaN

\* resetOrder lines 431-441
restoredItems(wrappers, oo) ==
  LET gt == [p \in Range(wrappers) \X Range(wrappers) |->
               originalGreater(oo, p[1], p[2])]
  IN ArraySort(wrappers, gt)

(***************************************************************************)
(* content.js: the MutationObserver and its debounce timer.                *)
(***************************************************************************)
TimerIds(ts) == {t.id : t \in ts}

\* The handle setTimeout returns: one no pending timer carries.
FreshId(ts) == CHOOSE i \in 1..(Cardinality(ts) + 1) : i \notin TimerIds(ts)

\* A callback that never cancels the timer it armed before.
clearTimeoutSkipped(ts, dt) == ts

\* content.js line 22: clearTimeout(debounceTimer)
clearTimeout(ts, dt) == {t \in ts : t.id # dt}

\* content.js lines 22-39: clearTimeout(debounceTimer); debounceTimer = setTimeout(..)
armDebounce(ts, dt) ==
  LET cleared == clearTimeout(ts, dt)
      id == FreshId(cleared)
  IN [timers |-> cleared \cup {[id |-> id, left |-> DEBOUNCE_MS, kind |-> "debounce"]},
      debounceTimer |-> id,
      armed |-> TRUE]

\* A callback without the isSorting guard of line 20.
observerCallbackUnguarded(sorting, ts, dt) == armDebounce(ts, dt)

\* content.js lines 19-40: the MutationObserver callback; sorting is getIsSorting().
observerCallback(sorting, ts, dt) ==
  IF sorting THEN [timers |-> ts, debounceTimer |-> dt, armed |-> FALSE]
  ELSE armDebounce(ts, dt)

\* The microtask checkpoint that ends a task: the observer callback runs iff the
\* task's handler made childList mutations; sorting is isSorting as the handler
\* left it, ts the timers it left pending, runs the reconcile runs so far.
Deliver(mutated, sorting, ts, runs) ==
  LET r == IF mutated THEN observerCallback(sorting, ts, debounceTimer)
           ELSE [timers |-> ts, debounceTimer |-> debounceTimer, armed |-> FALSE]
  IN /\ timers' = r.timers
     /\ debounceTimer' = r.debounceTimer
     /\ quiet' = IF r.armed THEN 0 ELSE quiet
     /\ burstRuns' = IF r.armed THEN 0 ELSE runs
     /\ burstNotifs' = IF ~r.armed THEN burstNotifs
                       ELSE IF ts = {} THEN 1 ELSE Min(burstNotifs + 1, 2)

(***************************************************************************)
(* sorter.js: sortProducts and resetOrder, each with the microtask that    *)
(* delivers its own mutations to the observer.                             *)
(***************************************************************************)
\* sortProducts lines 373 and 418: isSorting = true; it is released only by
\* the requestAnimationFrame callback, so it is still set when the handler ends.
busyAfterSort == TRUE

\* resetOrder lines 428 and 447.
busyAfterReset == TRUE

\* A sort without the guard of lines 368-371: with no container it stops at
\* container.querySelectorAll, after isSorting and currentFilter are set.
sortProductsUnguarded(filterType, hasOnComplete, ts, runs) ==
  IF ~container
  THEN /\ isSorting' = TRUE
       /\ currentFilter' = filterType
       /\ UNCHANGED <<container, cards, content, badgeAttr, originalOrder,
                      originalOrderSaved, uiFilter, rafPending>>
       /\ Deliver(FALSE, TRUE, ts, runs)
  ELSE /\ isSorting' = busyAfterSort
       /\ currentFilter' = filterType
       /\ originalOrder' = originalOrderAfter(originalOrderSaved, originalOrder, cards)
       /\ originalOrderSaved' = TRUE
       /\ cards' = appendAll(cards, sortedItems(cards, content, filterType))
       /\ badgeAttr' = injectAllBadges(cards, content, badgeAttr)
       /\ uiFilter' = IF hasOnComplete THEN filterType ELSE uiFilter
       /\ rafPending' = TRUE
       /\ UNCHANGED <<container, content>>
       /\ Deliver(cards # <<>> \/ hasOnComplete, busyAfterSort, ts, runs)

\* A sort that requests no animation frame.
sortProductsNoFrame(filterType, hasOnComplete, ts, runs) ==
  IF ~container
  THEN /\ UNCHANGED <<sorterVars, rafPending>>
       /\ Deliver(FALSE, isSorting, ts, runs)
  ELSE /\ isSorting' = busyAfterSort
       /\ currentFilter' = filterType
       /\ originalOrder' = originalOrderAfter(originalOrderSaved, originalOrder, cards)
       /\ originalOrderSaved' = TRUE
       /\ cards' = appendAll(cards, sortedItems(cards, content, filterType))
       /\ badgeAttr' = injectAllBadges(cards, content, badgeAttr)
       /\ uiFilter' = IF hasOnComplete THEN filterType ELSE uiFilter
       /\ UNCHANGED <<container, content, rafPending>>
       /\ Deliver(cards # <<>> \/ hasOnComplete, busyAfterSort, ts, runs)

\* sorter.js lines 366-419
sortProducts(filterType, hasOnComplete, ts, runs) ==
  IF ~container
  THEN /\ UNCHANGED <<sorterVars, rafPending>>
       /\ Deliver(FALSE, isSorting, ts, runs)
  ELSE /\ isSorting' = busyAfterSort
       /\ currentFilter' = filterType
       /\ originalOrder' = originalOrderAfter(originalOrderSaved, originalOrder, cards)
       /\ originalOrderSaved' = TRUE
       /\ cards' = appendAll(cards, sortedItems(cards, content, filterType))
       /\ badgeAttr' = injectAllBadges(cards, content, badgeAttr)
       /\ uiFilter' = IF hasOnComplete THEN filterType ELSE uiFilter
       /\ rafPending' = TRUE
       /\ UNCHANGED <<container, content>>
       /\ Deliver(cards # <<>> \/ hasOnComplete, busyAfterSort, ts, runs)

\* A reset that restores the order and leaves the selected category in place.
resetOrderKeepsFilter(hasOnComplete, ts, runs) ==
  IF ~originalOrderSaved \/ ~container
  THEN /\ UNCHANGED <<sorterVars, rafPending>>
       /\ Deliver(FALSE, isSorting, ts, runs)
  ELSE /\ isSorting' = busyAfterReset
       /\ cards' = appendAll(cards, restoredItems(cards, originalOrder))
       /\ badgeAttr' = removeAllBadges(badgeAttr)
       /\ rafPending' = TRUE
       /\ UNCHANGED <<container, content, originalOrder, originalOrderSaved,
                      currentFilter, uiFilter>>
       /\ Deliver(cards # <<>> \/ hasOnComplete, busyAfterReset, ts, runs)

\* sorter.js lines 422-448
resetOrder(hasOnComplete, ts, runs) ==
  IF ~originalOrderSaved \/ ~container
  THEN /\ UNCHANGED <<sorterVars, rafPending>>
       /\ Deliver(FALSE, isSorting, ts, runs)
  ELSE /\ isSorting' = busyAfterReset
       /\ currentFilter' = Null
       /\ cards' = appendAll(cards, restoredItems(cards, originalOrder))
       /\ badgeAttr' = removeAllBadges(badgeAttr)
       /\ uiFilter' = IF hasOnComplete THEN Null ELSE uiFilter
       /\ rafPending' = TRUE
       /\ UNCHANGED <<container, content, originalOrder, originalOrderSaved>>
       /\ Deliver(cards # <<>> \/ hasOnComplete, busyAfterReset, ts, runs)

\* ui.js line 141-145: a dropdown item is clicked.
SortBy(c) ==
  /\ sortProducts(c, TRUE, timers, burstRuns)
  /\ UNCHANGED <<scrapeVars, normVars>>

\* ui.js lines 221-224: the Reset button is clicked.
Reset ==
  /\ resetOrder(TRUE, timers, burstRuns)
  /\ UNCHANGED <<scrapeVars, normVars>>

\* sorter.js lines 418 and 447: the next animation frame runs every pending
\* callback, each of which clears isSorting.
AnimationFrame ==
  /\ rafPending
  /\ UNCHANGED <<scrapeVars, normVars>>
  /\ isSorting' = FALSE
  /\ rafPending' = FALSE
  /\ UNCHANGED <<container, cards, content, badgeAttr, currentFilter, originalOrder,
                 originalOrderSaved, uiFilter, timers, debounceTimer, quiet, burstRuns,
                 burstNotifs>>

\* content.js lines 31-37: badges for the wrappers without BADGE_ATTR.
injectUnprocessed(cs, cont, attrs) ==
  [w \in Wrappers |->
     IF w \in Range(cs) /\ attrs[w] = "none"
     THEN injectBadgeOnProduct(cont[w], attrs[w]) ELSE attrs[w]]

\* A debounce callback that injects badges and never re-applies the sort.
ReconcileBadgesOnly(t) ==
  /\ t \in timers /\ t.kind = "debounce" /\ t.left = 0
  /\ UNCHANGED <<scrapeVars, normVars>>
  /\ LET ts == timers \ {t}
         runs == Min(burstRuns + 1, 2)
     IN /\ badgeAttr' = injectUnprocessed(cards, content, badgeAttr)
        /\ UNCHANGED <<container, cards, content, isSorting, currentFilter,
                       originalOrder, originalOrderSaved, uiFilter, rafPending>>
        /\ Deliver(\E w \in Range(cards) :
                      badgeAttr[w] = "none" /\ badgeMutates(content[w], badgeAttr[w]),
                   isSorting, ts, runs)

\* A debounce callback that re-injects the badge of every entry.
ReconcileEveryBadge(t) ==
  /\ t \in timers /\ t.kind = "debounce" /\ t.left = 0
  /\ UNCHANGED <<scrapeVars, normVars>>
  /\ LET ts == timers \ {t}
         runs == Min(burstRuns + 1, 2)
     IN IF currentFilter # Null
        THEN sortProducts(currentFilter, FALSE, ts, runs)
        ELSE /\ badgeAttr' = injectAllBadges(cards, content, badgeAttr)
             /\ UNCHANGED <<container, cards, content, isSorting, currentFilter,
                            originalOrder, originalOrderSaved, uiFilter, rafPending>>
             /\ Deliver(\E w \in Range(cards) : badgeMutates(content[w], badgeAttr[w]),
                        isSorting, ts, runs)

\* content.js lines 23-39: the debounce timer fires (a reconcile run).
Reconcile(t) ==
  /\ t \in timers /\ t.kind = "debounce" /\ t.left = 0
  /\ UNCHANGED <<scrapeVars, normVars>>
  /\ LET ts == timers \ {t}
         runs == Min(burstRuns + 1, 2)
     IN IF currentFilter # Null
        THEN sortProducts(currentFilter, FALSE, ts, runs)
        ELSE /\ badgeAttr' = injectUnprocessed(cards, content, badgeAttr)
             /\ UNCHANGED <<container, cards, content, isSorting, currentFilter,
                            originalOrder, originalOrderSaved, uiFilter, rafPending>>
             /\ Deliver(\E w \in Range(cards) :
                           badgeAttr[w] = "none" /\ badgeMutates(content[w], badgeAttr[w]),
                        isSorting, ts, runs)

\* Time passes while some timer is not yet due.
Tick ==
  /\ \E t \in timers : t.left > 0
  /\ UNCHANGED <<scrapeVars, normVars>>
  /\ timers' = {[t EXCEPT !.left = Max(0, t.left - TickMs)] : t \in timers}
  /\ quiet' = Min(DEBOUNCE_MS, quiet + TickMs)
  /\ UNCHANGED <<sorterVars, debounceTimer, rafPending, burstRuns, burstNotifs>>

(***************************************************************************)
(* The external renderer (the host page) mutates the list at any time.     *)
(***************************************************************************)
InsertAt(s, i, x) == SubSeq(s, 1, i - 1) \o <<x>> \o SubSeq(s, i, Len(s))

AddCard(w, c, i) ==
  /\ container /\ w \notin Range(cards)
  /\ UNCHANGED <<scrapeVars, normVars>>
  /\ cards' = InsertAt(cards, i, w)
  /\ content' = [content EXCEPT ![w] = c]
  /\ badgeAttr' = [badgeAttr EXCEPT ![w] = "none"]
  /\ UNCHANGED <<container, isSorting, currentFilter, originalOrder,
                 originalOrderSaved, uiFilter, rafPending>>
  /\ Deliver(TRUE, isSorting, timers, burstRuns)

RemoveCard(w) ==
  /\ w \in Range(cards)
  /\ UNCHANGED <<scrapeVars, normVars>>
  /\ cards' = Filter(cards, Range(cards) \ {w})
  /\ content' = [content EXCEPT ![w] = Blank]
  /\ badgeAttr' = [badgeAttr EXCEPT ![w] = "none"]
  /\ UNCHANGED <<container, isSorting, currentFilter, originalOrder,
                 originalOrderSaved, uiFilter, rafPending>>
  /\ Deliver(TRUE, isSorting, timers, burstRuns)

ChangeContent(w, c) ==
  /\ w \in Range(cards) /\ c # content[w]
  /\ UNCHANGED <<scrapeVars, normVars>>
  /\ content' = [content EXCEPT ![w] = c]
  /\ UNCHANGED <<container, cards, badgeAttr, isSorting, currentFilter, originalOrder,
                 originalOrderSaved, uiFilter, rafPending>>
  /\ Deliver(TRUE, isSorting, timers, burstRuns)

RemoveContainer ==
  /\ container
  /\ UNCHANGED <<scrapeVars, normVars>>
  /\ container' = FALSE
  /\ cards' = <<>>
  /\ content' = [w \in Wrappers |-> Blank]
  /\ badgeAttr' = [w \in Wrappers |-> "none"]
  /\ UNCHANGED <<isSorting, currentFilter, originalOrder, originalOrderSaved,
                 uiFilter, rafPending>>
  /\ Deliver(TRUE, isSorting, timers, burstRuns)

RestoreContainer ==
  /\ ~container
  /\ UNCHANGED <<scrapeVars, normVars>>
  /\ container' = TRUE
  /\ UNCHANGED <<cards, content, badgeAttr, isSorting, currentFilter, originalOrder,
                 originalOrderSaved, uiFilter, rafPending>>
  /\ Deliver(TRUE, isSorting, timers, burstRuns)

(***************************************************************************)
(* api.js: the paginated retrieval (scrapeAllPages) over the two API       *)
(* dialects, A (Endeca, scrapeViaEndeca) and B (BFF, scrapeViaBff).        *)
(***************************************************************************)
ENDeca_BATCH == 50

ENDeca_PARALLEL == 3

BFF_PARALLEL == 6

\* waitForBffUrlInPerformance(timeoutMs = 2500, stepMs = 80)
timeoutMs == 2500

stepMs == 80

\* scrapeViaBff line 530: the page size when the template carries none.
defaultNrpp == 24

\* A dialect-B template URL: whether it carries num_results_per_page, and its value.
BffUrl(hasParam, n) == [present |-> TRUE, hasNrpp |-> hasParam, nrpp |-> n]

NoUrl == [present |-> FALSE, hasNrpp |-> FALSE, nrpp |-> 0]

BffTemplates == {BffUrl(FALSE, 0), BffUrl(TRUE, 2)}

\* The totals the first page of dialect A reports.
TotalsA == {0, ENDeca_BATCH, ENDeca_BATCH + 30, ENDeca_BATCH * MaxPagesA - 20}

\* The totals the first page of dialect B reports, for page size n.
TotalsB(n) == {0, n + 1, n * MaxPagesB - 1}

\* The records of one page: the products ranked from..to-1 of the dialect's
\* catalogue; badFirst: parsing the first record throws.
Records(d, from, to, badFirst) ==
  [i \in 1..Max(0, to - from) |->
     [id |-> <<d, from + i - 1>>, parses |-> ~(badFirst /\ i = 1)]]

\* What the server answers to a dialect-A request: "status" (non-success HTTP
\* status), "nocontainer" (no Category_ResultsList), "page" (the slice at the
\* offset), "malformed" (the slice, its first record one parseEndecaRecord
\* throws on, such as product.dtoDescuentos = "null").
EndecaKinds == {"status", "nocontainer", "page", "malformed"}

EndecaResponse(kind, offset, T) ==
  [ok |-> kind # "status",
   container |-> kind \in {"page", "malformed"},
   totalNumRecs |-> T,
   records |-> IF kind \in {"page", "malformed"}
               THEN Records("A", offset, Min(offset + ENDeca_BATCH, T), kind = "malformed")
               ELSE <<>>]

\* What the server answers to a dialect-B request: "status", "invalid" (no
\* response.results array), "page" (the slice of page number page, size n),
\* "malformed" (the slice, its first result one parseBffRecord throws on, such
\* as a numeric data.product_format), "grown" (the slice of a catalogue that
\* has gained one product since page 1 reported the total).
BffKinds == {"status", "invalid", "page", "malformed", "grown"}

BffResponse(kind, page, T, n) ==
  [ok |-> kind # "status",
   valid |-> kind \in {"page", "malformed", "grown"},
   total |-> IF kind \in {"page", "malformed", "grown"} THEN T ELSE 0,
   results |-> IF kind \in {"page", "malformed"}
               THEN Records("B", (page - 1) * n, Min(page * n, T), kind = "malformed")
               ELSE IF kind = "grown"
               THEN Records("B", (page - 1) * n, Min(page * n, T + 1), FALSE)
               ELSE <<>>]

NoResultsList == [found |-> FALSE, totalNumRecs |-> 0, records |-> <<>>]

findResultsList(data) ==
  IF data.container
  THEN [found |-> TRUE, totalNumRecs |-> data.totalNumRecs, records |-> data.records]
  ELSE NoResultsList

\* parseEndecaRecord / parseBffRecord return for the record, or throw.
parsed(r) == r.parses

\* A try/catch around the whole loop: the records after the one that throws
\* are lost with it.
RECURSIVE extractUntilThrow(_)
extractUntilThrow(resultsList) ==
  IF resultsList.records = <<>> \/ ~parsed(Head(resultsList.records)) THEN <<>>
  ELSE <<Head(resultsList.records).id>>
         \o extractUntilThrow([resultsList EXCEPT !.records = Tail(resultsList.records)])

\* The records whose parse does not throw, in order (try/catch per record); a
\* null resultsList yields no record (resultsList?.records || []).
extractProductsFromResultsList(resultsList) ==
  LET good == SelectSeq(resultsList.records, parsed)
  IN [i \in 1..Len(good) |-> good[i].id]

\* A validation that lets every response through.
isValidAlways(data) == TRUE

isValidBffResponse(data) == data.valid

extractProductsFromBffResponse(data) ==
  LET good == SelectSeq(data.results, parsed)
  IN [i \in 1..Len(good) |-> good[i].id]

\* An offset loop that runs while offset <= totalNumRecs.
RECURSIVE remainingOffsetsInclusive(_, _)
remainingOffsetsInclusive(offset, T) ==
  IF offset <= T THEN <<offset>> \o remainingOffsetsInclusive(offset + ENDeca_BATCH, T)
  ELSE <<>>

\* scrapeViaEndeca lines 486-489, entered with offset = ENDeca_BATCH.
RECURSIVE remainingOffsets(_, _)
remainingOffsets(offset, T) ==
  IF offset < T THEN <<offset>> \o remainingOffsets(offset + ENDeca_BATCH, T)
  ELSE <<>>

\* scrapeViaBff line 530.
nrppOf(url) == Max(1, IF url.hasNrpp THEN url.nrpp ELSE defaultNrpp)

\* scrapeViaBff line 545: Math.max(1, Math.ceil(totalNumRecs / nrpp))
totalPagesOf(T, n) == Max(1, (T + n - 1) \div n)

\* scrapeViaBff lines 552-553.
pagesFrom(page, last) == [i \in 1..Max(0, last - page + 1) |-> page + i - 1]

\* A slot of the array Promise.all resolves with.
Pending == [done |-> FALSE, batch |-> <<>>]

\* Results pushed as the responses arrive.
storeCompletionOrder(rs, i, batch) ==
  LET j == CHOOSE k \in DOMAIN rs : ~rs[k].done /\ \A m \in 1..(k - 1) : rs[m].done
  IN [rs EXCEPT ![j] = [done |-> TRUE, batch |-> batch]]

\* Promise.all(group.map(..)): the value of request i goes to slot i.
promiseAllStore(rs, i, batch) == [rs EXCEPT ![i] = [done |-> TRUE, batch |-> batch]]

\* for (const batch of results) allProducts.push(...batch)
RECURSIVE concatBatches(_)
concatBatches(rs) ==
  IF rs = <<>> THEN <<>> ELSE Head(rs).batch \o concatBatches(Tail(rs))

\* Messages: the text and the offset or page it names (0: none).
Msg(text, at) == [text |-> text, at |-> at]

NoError == Msg("", 0)

\* What updateProgressFn shows: a label and the two numbers it embeds.
Label(text, detail, loaded, total) ==
  [label |-> text, detail |-> detail, loaded |-> loaded, total |-> total]

NoLabel == Label("", "", 0, 0)

\* logger.js lines 220-225: the progress callback given to scrapeAllPages.
progressLabel(loaded, total) ==
  IF total > 0 THEN Label("Obteniendo productos (loaded/total)...", "", loaded, total)
  ELSE Label("Obteniendo productos...", "", 0, 0)

\* A callback that takes the two numbers in the other order.
progressCallbackSwapped(s, loaded, total) ==
  [s EXCEPT !.progressCalls = Append(@, <<total, loaded>>),
            !.uiMessage = progressLabel(total, loaded)]

\* if (progressCallback) progressCallback(loaded, total)
progressCallback(s, loaded, total) ==
  [s EXCEPT !.progressCalls = Append(@, <<loaded, total>>),
            !.uiMessage = progressLabel(loaded, total)]

\* logger.js line 257: the catch of startRevistaGeneration.
errorLabel(err) == Label("Error: ", err.text, err.at, 0)

\* The state of the retrieval call as one record: the steps of the call are
\* functions from the state they find to the state they leave (a step starts
\* with no progressCallback invocation of its own).
Cur ==
  [pc |-> pc, dialect |-> dialect, totalNumRecs |-> totalNumRecs, nrpp |-> nrpp,
   remaining |-> remaining, group |-> group, inflight |-> inflight,
   results |-> results, allProducts |-> allProducts, requests |-> requests,
   served |-> served, outOfOrder |-> outOfOrder, capturedBffUrl |-> capturedBffUrl,
   waited |-> waited, uiMessage |-> uiMessage, progressCalls |-> <<>>, error |-> error,
   location |-> location, capturedEndecaUrl |-> capturedEndecaUrl, bases |-> bases]

Commit(s) ==
  /\ pc' = s.pc
  /\ dialect' = s.dialect
  /\ totalNumRecs' = s.totalNumRecs
  /\ nrpp' = s.nrpp
  /\ remaining' = s.remaining
  /\ group' = s.group
  /\ inflight' = s.inflight
  /\ results' = s.results
  /\ allProducts' = s.allProducts
  /\ requests' = s.requests
  /\ served' = s.served
  /\ outOfOrder' = s.outOfOrder
  /\ capturedBffUrl' = s.capturedBffUrl
  /\ waited' = s.waited
  /\ uiMessage' = s.uiMessage
  /\ progressCalls' = s.progressCalls
  /\ error' = s.error
  /\ location' = s.location
  /\ capturedEndecaUrl' = s.capturedEndecaUrl
  /\ bases' = s.bases

\* refreshCapturedUrls lines 112-115: the newest dialect-B entry, if any.
refreshCapturedUrls(captured) == IF perfBff.present THEN perfBff ELSE captured

\* The locals of a pagination function that has returned or thrown.
dropLocals(s) ==
  [s EXCEPT !.remaining = <<>>, !.group = <<>>, !.inflight = {}, !.results = <<>>]

\* scrapeAllPages resolves with all; startRevistaGeneration lines 227-240.
resolve(s, all) ==
  [dropLocals(s) EXCEPT
     !.pc = "resolved", !.allProducts = all,
     !.uiMessage = IF all = <<>> THEN NoLabel
                   ELSE Label("Preparando revista imprimible...", "", 0, 0)]

\* scrapeAllPages rejects with err; startRevistaGeneration lines 255-258.
reject(s, err) ==
  [dropLocals(s) EXCEPT
     !.pc = "rejected", !.allProducts = <<>>, !.error = err,
     !.uiMessage = errorLabel(err)]

\* A loop that requests every remaining page at once.
issueGroupUnbounded(s, parallel, phase) ==
  IF s.remaining = <<>> THEN resolve(s, s.allProducts)
  ELSE LET n == Len(s.remaining)
           g == SubSeq(s.remaining, 1, n)
       IN [s EXCEPT
             !.pc = phase, !.group = g, !.inflight = 1..n,
             !.results = [i \in 1..n |-> Pending],
             !.remaining = SubSeq(s.remaining, n + 1, Len(s.remaining)),
             !.requests = s.requests \o [i \in 1..n |-> <<s.dialect, g[i]>>]]

\* The head of the group loop (lines 491-502, 555-569): the next group of at
\* most parallel requests is issued, or the function returns allProducts.
issueGroup(s, parallel, phase) ==
  IF s.remaining = <<>> THEN resolve(s, s.allProducts)
  ELSE LET n == Min(parallel, Len(s.remaining))
           g == SubSeq(s.remaining, 1, n)
       IN [s EXCEPT
             !.pc = phase, !.group = g, !.inflight = 1..n,
             !.results = [i \in 1..n |-> Pending],
             !.remaining = SubSeq(s.remaining, n + 1, Len(s.remaining)),
             !.requests = s.requests \o [i \in 1..n |-> <<s.dialect, g[i]>>]]

\* capturedUrlMatchesCurrentPage: the base path of the captured URL and the
\* path of the page address belong to the same listing.
capturedUrlMatchesCurrentPage(url, loc) == url # 0 /\ url = loc

\* buildEndecaApiUrl lines 180-185: baseHref is the captured URL when it
\* matches the page address, else window.location.href, read anew at every call.
\* (The refresh of line 178 finds the entry the PerformanceObserver stored.)
buildEndecaApiUrl(s) ==
  [s EXCEPT !.bases = @ \cup {IF capturedUrlMatchesCurrentPage(s.capturedEndecaUrl, s.location)
                              THEN <<"captured", s.capturedEndecaUrl>>
                              ELSE <<"location", s.location>>}]

\* buildEndecaApiUrl runs for every request of the group (lines 494-495), all
\* in the task that issues the group.
issueEndecaGroup(s) ==
  issueGroup([(IF s.remaining = <<>> THEN s ELSE buildEndecaApiUrl(s))
                EXCEPT !.capturedBffUrl = refreshCapturedUrls(s.capturedBffUrl)],
             ENDeca_PARALLEL, "endecaGroup")

issueBffGroup(s) == issueGroup(s, BFF_PARALLEL, "bffGroup")

\* scrapeViaBff lines 529-536: page 1 is requested from the template.
bffFetchFirst(s, url) ==
  [s EXCEPT !.pc = "bffFirst", !.nrpp = nrppOf(url), !.capturedBffUrl = url,
            !.requests = Append(s.requests, <<"B", 1>>)]

\* scrapeAllPages lines 588-592 and scrapeViaBff lines 514-520: dialect A has
\* thrown, its locals are gone, and dialect B starts.
scrapeViaBff(s) ==
  LET url == refreshCapturedUrls(s.capturedBffUrl)
      b == [dropLocals(s) EXCEPT
              !.dialect = "B", !.totalNumRecs = 0, !.allProducts = <<>>,
              !.served = {}, !.outOfOrder = FALSE, !.waited = 0, !.bases = {}]
  IN IF url.present THEN bffFetchFirst(b, url)
     ELSE [b EXCEPT !.pc = "bffWait"]

\* waitForBffUrlInPerformance lines 96-102 after one more stepMs, and scrapeViaBff
\* lines 522-527 when it returns null.
\* (started, the local that waited measures, is gone once the function returns a URL.)
waitForBffUrlInPerformance(s) ==
  LET elapsed == s.waited + stepMs
      url == refreshCapturedUrls(s.capturedBffUrl)
  IN IF elapsed < timeoutMs
     THEN IF url.present THEN bffFetchFirst([s EXCEPT !.waited = 0], url)
          ELSE [s EXCEPT !.waited = elapsed]
     ELSE reject([s EXCEPT !.waited = elapsed],
                 Msg("No se detecto endpoint BFF de productos en Performance.", 0))

\* scrapeViaEndeca lines 471-489 on the first response.
scrapeViaEndecaFirst(s, data) ==
  LET resultsList == findResultsList(data)
      T == resultsList.totalNumRecs
      all == extractProductsFromResultsList(resultsList)
  IN IF ~data.ok \/ ~resultsList.found THEN scrapeViaBff(s)
     ELSE issueEndecaGroup(
            progressCallback(
              progressCallback(
                [s EXCEPT !.totalNumRecs = T, !.allProducts = all,
                          !.remaining = remainingOffsets(ENDeca_BATCH, T)],
                0, T),
              Len(all), T))

\* scrapeViaEndeca lines 494-505 on the response to request i of the group.
scrapeViaEndecaPage(s, i, data) ==
  IF ~data.ok THEN scrapeViaBff(s)
  ELSE LET rs == promiseAllStore(s.results, i,
                   extractProductsFromResultsList(findResultsList(data)))
           all == s.allProducts \o concatBatches(rs)
       IN IF s.inflight # {i}
          THEN [s EXCEPT !.results = rs, !.inflight = s.inflight \ {i}]
          ELSE issueEndecaGroup(
                 progressCallback([s EXCEPT !.allProducts = all],
                                  Len(all), s.totalNumRecs))

\* scrapeViaBff lines 536-553 on the first response.
scrapeViaBffFirst(s, data) ==
  IF ~data.ok THEN reject(s, Msg("BFF API error", 0))
  ELSE IF ~isValidBffResponse(data)
  THEN reject(s, Msg("BFF response invalida: falta response.results", 0))
  ELSE LET T == IF data.total # 0 THEN data.total ELSE Len(data.results)
           all == extractProductsFromBffResponse(data)
       IN issueBffGroup(
            progressCallback(
              progressCallback(
                [s EXCEPT !.totalNumRecs = T, !.allProducts = all,
                          !.remaining = pagesFrom(2, totalPagesOf(T, s.nrpp))],
                0, T),
              Len(all), T))

\* scrapeViaBff lines 558-572 on the response to request i of the group.
scrapeViaBffPage(s, i, data) ==
  IF ~data.ok THEN reject(s, Msg("BFF API error at page", s.group[i]))
  ELSE IF ~isValidBffResponse(data)
  THEN reject(s, Msg("BFF response invalida en page: falta response.results", s.group[i]))
  ELSE LET rs == promiseAllStore(s.results, i, extractProductsFromBffResponse(data))
           all == s.allProducts \o concatBatches(rs)
       IN IF s.inflight # {i}
          THEN [s EXCEPT !.results = rs, !.inflight = s.inflight \ {i}]
          ELSE issueBffGroup(
                 progressCallback([s EXCEPT !.allProducts = all],
                                  Min(Len(all), s.totalNumRecs), s.totalNumRecs))

\* A response of the group arrives before that of an earlier request.
overtakes(i) == \E j \in inflight : j < i

\* logger.js lines 215-226: startRevistaGeneration calls scrapeAllPages, which
\* calls scrapeViaEndeca, which requests offset 0.
StartRevistaGeneration ==
  /\ pc = "idle"
  /\ Commit(buildEndecaApiUrl([Cur EXCEPT
       !.pc = "endecaFirst", !.dialect = "A",
       !.capturedBffUrl = refreshCapturedUrls(capturedBffUrl),
       !.requests = <<<<"A", 0>>>>,
       !.bases = {},
       !.uiMessage = Label("Consultando API de COTO...", "", 0, 0)]))
  /\ UNCHANGED <<perfBff, pageVars, normVars>>

\* The response to the first dialect-A request arrives.
EndecaFirstResponse(kind, T) ==
  /\ pc = "endecaFirst"
  /\ Commit(scrapeViaEndecaFirst([Cur EXCEPT !.served = {<<0, kind>>}],
                                 EndecaResponse(kind, 0, T)))
  /\ UNCHANGED <<perfBff, pageVars, normVars>>

\* The response to request i of the dialect-A group in flight arrives.
EndecaPageResponse(i, kind) ==
  /\ pc = "endecaGroup" /\ i \in inflight
  /\ Commit(scrapeViaEndecaPage(
       [Cur EXCEPT !.served = served \cup {<<group[i], kind>>},
                   !.outOfOrder = outOfOrder \/ overtakes(i)],
       i, EndecaResponse(kind, group[i], totalNumRecs)))
  /\ UNCHANGED <<perfBff, pageVars, normVars>>

\* The stepMs timer of waitForBffUrlInPerformance fires.
BffPoll ==
  /\ pc = "bffWait"
  /\ Commit(waitForBffUrlInPerformance(Cur))
  /\ UNCHANGED <<perfBff, pageVars, normVars>>

\* The response to page 1 of dialect B arrives.
BffFirstResponse(kind, T) ==
  /\ pc = "bffFirst" /\ kind # "grown"
  /\ Commit(scrapeViaBffFirst([Cur EXCEPT !.served = {<<1, kind>>}],
                              BffResponse(kind, 1, T, nrpp)))
  /\ UNCHANGED <<perfBff, pageVars, normVars>>

\* The response to request i of the dialect-B group in flight arrives; the
\* product a grown catalogue has gained shows on its last page.
BffPageResponse(i, kind) ==
  /\ pc = "bffGroup" /\ i \in inflight
  /\ kind = "grown" =>
       (group[i] = totalPagesOf(totalNumRecs, nrpp) /\ totalNumRecs < group[i] * nrpp)
  /\ Commit(scrapeViaBffPage(
       [Cur EXCEPT !.served = served \cup {<<group[i], kind>>},
                   !.outOfOrder = outOfOrder \/ overtakes(i)],
       i, BffResponse(kind, group[i], totalNumRecs, nrpp)))
  /\ UNCHANGED <<perfBff, pageVars, normVars>>

\* The host page calls its dialect-B endpoint while a call may be running: the
\* entry joins the Performance timeline and the PerformanceObserver callback
\* (lines 124-139) records it.
PageTraffic(url) ==
  /\ pc \notin {"resolved", "rejected"}
  /\ url # perfBff
  /\ perfBff' = url
  /\ capturedBffUrl' = url
  /\ progressCalls' = <<>>
  /\ UNCHANGED <<pc, dialect, totalNumRecs, nrpp, remaining, group, inflight, results,
                 allProducts, requests, served, outOfOrder, waited, uiMessage, error,
                 location, capturedEndecaUrl, bases, pageVars, normVars>>

\* The shopper opens another listing while dialect A is running or about to:
\* the page address changes (the products of the listing are fetched later).
Navigate(l) ==
  /\ pc \in {"idle", "endecaFirst", "endecaGroup"}
  /\ l # location
  /\ location' = l
  /\ progressCalls' = <<>>
  /\ UNCHANGED <<pc, dialect, totalNumRecs, nrpp, remaining, group, inflight, results,
                 allProducts, requests, served, outOfOrder, perfBff, capturedBffUrl,
                 waited, uiMessage, error, capturedEndecaUrl, bases, pageVars, normVars>>

\* api.js lines 124-132: the page fetches the products of the listing it shows
\* and the PerformanceObserver callback stores the URL of that request.
EndecaTraffic ==
  /\ pc \in {"idle", "endecaFirst", "endecaGroup"}
  /\ capturedEndecaUrl # location
  /\ capturedEndecaUrl' = location
  /\ progressCalls' = <<>>
  /\ UNCHANGED <<pc, dialect, totalNumRecs, nrpp, remaining, group, inflight, results,
                 allProducts, requests, served, outOfOrder, perfBff, capturedBffUrl,
                 waited, uiMessage, error, location, bases, pageVars, normVars>>

\* No function has been applied to an input.
NoInput == [kind |-> "none"]

NoOutput == [kind |-> "none"]

NormIdle == input = NoInput /\ output = NoOutput

\* No retrieval call has been made.
ScrapeIdle ==
  /\ pc = "idle"
  /\ dialect = Null
  /\ totalNumRecs = 0
  /\ nrpp = 0
  /\ remaining = <<>>
  /\ group = <<>>
  /\ inflight = {}
  /\ results = <<>>
  /\ allProducts = <<>>
  /\ requests = <<>>
  /\ served = {}
  /\ outOfOrder = FALSE
  /\ perfBff = NoUrl
  /\ capturedBffUrl = NoUrl
  /\ waited = 0
  /\ uiMessage = NoLabel
  /\ progressCalls = <<>>
  /\ error = NoError
  /\ location = 1
  /\ capturedEndecaUrl = 0
  /\ bases = {}

(***************************************************************************)
(* api.js: the normalizers of the two API dialects.  Prices are integers   *)
(* (cents); a ratio or an adjusted price is a fraction num / den.          *)
(***************************************************************************)
\* A deal descriptor of product.dtoDescuentos: textoDescuento, and the number
\* line 360-361 reads in precioDescuento (NaN when it holds none).
Dto(texto, pd) == [textoDescuento |-> texto, precioDescuento |-> pd]

\* A dialect-A record: parseFloat of sku.activePrice, sku.referencePrice and
\* sku.listPrice ("0" when absent), product.cFormato, the parsed dtoDescuentos.
EndecaRecord(a, r, l, f, d) ==
  [activePrice |-> a, referencePrice |-> r, listPrice |-> l, cFormato |-> f, dto |-> d]

\* cFormatoToUnitType: prefix match of the lower-cased format.
cFormatoToUnitType(cFormato) ==
  CASE cFormato \in {"Kilo", "Kilogramo", "KG"} -> "weight"
    [] cFormato \in {"Litro", "LT"} -> "volume"
    [] cFormato = "100 Gramos" -> "100g"
    [] cFormato = "Metro Cuadrado" -> "square"
    [] cFormato \in {"Unidad", "Uni"} -> "unit"
    [] OTHER -> Null

SetMin(S) == CHOOSE x \in S : \A y \in S : x <= y

SetMax(S) == CHOOSE x \in S : \A y \in S : x >= y

\* A ratio taken from the deal text "NXM" (pay M of N), as an earlier revision did.
calcDiscountRatioFromText(dtoArr, activePrice, listPrice) ==
  IF \E i \in 1..Len(dtoArr) : dtoArr[i].textoDescuento = "3X2"
  THEN [num |-> 2, den |-> 3] ELSE [num |-> 1, den |-> 1]

\* A ratio that prefers the list price to the deal descriptors.
calcDiscountRatioListFirst(dtoArr, activePrice, listPrice) ==
  LET pds == {dtoArr[i].precioDescuento : i \in 1..Len(dtoArr)}
      effective == {pd \in pds : pd # NaN /\ pd > 0}
  IN IF listPrice > 0 /\ activePrice > 0 /\ activePrice < listPrice
     THEN [num |-> activePrice, den |-> listPrice]
     ELSE IF effective # {} /\ SetMin(effective) < activePrice
     THEN [num |-> SetMin(effective), den |-> activePrice]
     ELSE [num |-> 1, den |-> 1]

\* calcDiscountRatio(dtoArr, activePrice, get): listPrice is parseFloat of sku.listPrice.
calcDiscountRatio(dtoArr, activePrice, listPrice) ==
  LET pds == {dtoArr[i].precioDescuento : i \in 1..Len(dtoArr)}
      effective == {pd \in pds : pd # NaN /\ pd > 0}
      byDto == Len(dtoArr) > 0 /\ activePrice > 0 /\ effective # {}
               /\ SetMin(effective) < activePrice
  IN IF byDto THEN [num |-> SetMin(effective), den |-> activePrice]
     ELSE IF listPrice > 0 /\ activePrice > 0 /\ activePrice < listPrice
     THEN [num |-> activePrice, den |-> listPrice]
     ELSE [num |-> 1, den |-> 1]

\* discountRatio < 0.999
hasDiscount(ratio) == ratio.num * 1000 < 999 * ratio.den

\* The product a normalizer returns: the fields the claims read.
Product(type, active, reference, ratio, adjNum, adjDen) ==
  [kind |-> "product", unitType |-> type, activePrice |-> active,
   referencePrice |-> reference, ratioNum |-> ratio.num, ratioDen |-> ratio.den,
   adjNum |-> adjNum, adjDen |-> adjDen]

\* parseEndecaRecord lines 395-434.
parseEndecaRecord(rec) ==
  LET ratio == calcDiscountRatio(rec.dto, rec.activePrice, rec.listPrice)
      adjusts == rec.referencePrice > 0 /\ hasDiscount(ratio)
  IN Product(cFormatoToUnitType(rec.cFormato), rec.activePrice, rec.referencePrice, ratio,
             IF adjusts THEN rec.referencePrice * ratio.num ELSE rec.referencePrice,
             IF adjusts THEN ratio.den ELSE 1)

\* A dialect-B result: data.product_list_price, data.product_format and the
\* priceWithoutTax of the entries of data.price.
BffResult(l, f, ps) == [listPrice |-> l, productFormat |-> f, prices |-> ps]

\* numOrZero
numOrZero(value) == IF value > 0 THEN value ELSE 0

\* A conversion that adds no tax.
withoutTaxAsIs(priceWithoutTax) == numOrZero(priceWithoutTax) * 100

\* fromWithoutTax: raw * 1.21, in hundredths of the input's unit.
fromWithoutTax(priceWithoutTax) == numOrZero(priceWithoutTax) * 121

\* parseBffRecord lines 272-334; its prices are in hundredths of the input's unit.
parseBffRecord(result) ==
  LET listPrice == numOrZero(result.listPrice) * 100
      candidates == {fromWithoutTax(result.prices[i]) : i \in 1..Len(result.prices)} \ {0}
      maxPrice == IF candidates # {} THEN SetMax(candidates) ELSE 0
      minPrice == IF candidates # {} THEN SetMin(candidates) ELSE 0
      activePrice == IF listPrice # 0 THEN listPrice
                     ELSE IF maxPrice # 0 THEN maxPrice ELSE minPrice
      ratio == IF minPrice > 0 /\ activePrice > 0 /\ minPrice < activePrice
               THEN [num |-> minPrice, den |-> activePrice]
               ELSE [num |-> 1, den |-> 1]
  IN Product(cFormatoToUnitType(result.productFormat), activePrice, activePrice, ratio,
             IF hasDiscount(ratio) THEN activePrice * ratio.num ELSE activePrice,
             IF hasDiscount(ratio) THEN ratio.den ELSE 1)

\* The product read off a rendered entry: extractProductData, null as kind "null".
productOfEntry(c) ==
  LET data == wrapperData(c)
  IN IF data.isNull THEN [kind |-> "null"]
     ELSE Product(data.unitType, data.displayedPrice, data.listedUnitPrice,
                  [num |-> data.ratioNum, den |-> data.ratioDen], data.adjNum, data.adjDen)

(***************************************************************************)
(* utils.js: price texts.  A text is a sequence of characters; an amount   *)
(* is an integer number of cents.                                          *)
(***************************************************************************)
Digs == <<"0", "1", "2", "3", "4", "5", "6", "7", "8", "9">>

DigitChar(d) == Digs[d + 1]

DigitValue(ch) == CHOOSE d \in 0..9 : Digs[d + 1] = ch

isDigit(ch) == ch \in Range(Digs)

\* The decimal digits of a natural number.
RECURSIVE Digits(_)
Digits(n) == IF n < 10 THEN <<DigitChar(n)>> ELSE Digits(n \div 10) \o <<DigitChar(n % 10)>>

\* num.toFixed(2)
toFixed2(num) ==
  Digits(num \div 100) \o <<".">> \o <<DigitChar((num % 100) \div 10), DigitChar(num % 10)>>

\* .replace(/\B(?=(\d{3})+(?!\d))/g, "."): a separator before every digit, but
\* the first, that is followed by a multiple of three digits up to the end.
RECURSIVE thousands(_, _)
thousands(ds, i) ==
  IF i > Len(ds) THEN <<>>
  ELSE (IF i > 1 /\ (Len(ds) - i + 1) % 3 = 0 THEN <<".", ds[i]>> ELSE <<ds[i]>>)
       \o thousands(ds, i + 1)

\* formatPrice(num)
formatPrice(num) ==
  IF num = NaN THEN <<"-">>
  ELSE LET fixed == toFixed2(num)
           dot == IndexOf(fixed, ".")
           intPart == thousands(SubSeq(fixed, 1, dot - 1), 1)
       IN <<"$">> \o intPart \o <<",">> \o SubSeq(fixed, dot + 1, Len(fixed))

\* .replace(",", "."): the first comma only.
replaceFirstComma(s) ==
  IF "," \in Range(s) THEN [s EXCEPT ![IndexOf(s, ",")] = "."] ELSE s

\* The longest prefix of digits of s from position i on.
RECURSIVE digitPrefix(_, _)
digitPrefix(s, i) ==
  IF i <= Len(s) /\ isDigit(s[i]) THEN <<s[i]>> \o digitPrefix(s, i + 1) ELSE <<>>

RECURSIVE NatOf(_)
NatOf(ds) == IF ds = <<>> THEN 0 ELSE NatOf(SubSeq(ds, 1, Len(ds) - 1)) * 10 + DigitValue(ds[Len(ds)])

\* parseFloat(text), in cents: digits, then "." and digits; NaN without a digit.
parseFloat(s) ==
  LET int == digitPrefix(s, 1)
      hasDot == Len(s) > Len(int) /\ s[Len(int) + 1] = "."
      frac == IF hasDot THEN digitPrefix(s, Len(int) + 2) ELSE <<>>
      padded == SubSeq(frac \o <<"0", "0">>, 1, 2)
  IN IF int = <<>> /\ frac = <<>> THEN NaN
     ELSE NatOf(int) * 100 + NatOf(padded)

\* parsePrice with .replace(".", "") in place of .replace(/\./g, "").
parsePriceFirstDot(raw) ==
  LET noSign == Filter(raw, Range(raw) \ {"$", " "})
      noDots == IF "." \in Range(noSign)
                THEN SubSeq(noSign, 1, IndexOf(noSign, ".") - 1)
                     \o SubSeq(noSign, IndexOf(noSign, ".") + 1, Len(noSign))
                ELSE noSign
  IN parseFloat(replaceFirstComma(noDots))

\* parsePrice(raw)
parsePrice(raw) ==
  LET noSign == Filter(raw, Range(raw) \ {"$", " "})
      noDots == Filter(noSign, Range(noSign) \ {"."})
  IN parseFloat(replaceFirstComma(noDots))

(***************************************************************************)
(* logger.js (revista): grouping of the retrieved products.                *)
(***************************************************************************)
ORDER == <<"weight", "volume", "100g", "square", "unit", Null>>

\* detectUnitTypeFromProduct(p) || null; an API product without unitType
\* has no unitPriceText either.
detectUnitTypeFromProduct(p) == p.unitType

\* a.adjustedReferencePrice || a.referencePrice || a.activePrice || Infinity
\* inside a unit category, a.activePrice || Infinity outside.
sortPrice(type, p) ==
  IF type # Null /\ p.adjNum # 0 THEN [inf |-> FALSE, num |-> p.adjNum, den |-> p.adjDen]
  ELSE IF type # Null /\ p.referencePrice # 0
  THEN [inf |-> FALSE, num |-> p.referencePrice, den |-> 1]
  ELSE IF p.activePrice # 0 THEN [inf |-> FALSE, num |-> p.activePrice, den |-> 1]
  ELSE [inf |-> TRUE, num |-> 0, den |-> 1]

\* priceA - priceB > 0 (Infinity - Infinity is NaN, which sort takes as 0).
priceGreater(type, a, b) ==
  LET priceA == sortPrice(type, a)
      priceB == sortPrice(type, b)
  IN IF priceA.inf THEN ~priceB.inf
     ELSE ~priceB.inf /\ priceA.num * priceB.den > priceB.num * priceA.den

\* groups.get(type) after prods.sort(...)
sortedGroup(products, type) ==
  LET members == {p \in Range(products) : detectUnitTypeFromProduct(p) = type}
      gt == [pr \in members \X members |-> priceGreater(type, pr[1], pr[2])]
  IN ArraySort(Filter(products, members), gt)

\* groupAndSortProducts(products): the groups present, in ORDER.
RECURSIVE groupsFrom(_, _)
groupsFrom(products, i) ==
  IF i > Len(ORDER) THEN <<>>
  ELSE (IF \E p \in Range(products) : detectUnitTypeFromProduct(p) = ORDER[i]
        THEN <<[unitType |-> ORDER[i], products |-> sortedGroup(products, ORDER[i])]>>
        ELSE <<>>)
       \o groupsFrom(products, i + 1)

groupAndSortProducts(products) == groupsFrom(products, 1)

(***************************************************************************)
(* The normalizers applied to one input each.                              *)
(***************************************************************************)
\* README "Formula de ajuste de precio": Harina Integral Pureza 1kg, paid
\* $1.348,47, unit price $1.797,96, regular price $1.797,96 in the data
\* attribute, in the "Precio Regular" text, or nowhere.
HarinaAttr == Content(TRUE, "Kilogramo", "1", 179796, 134847, 179796, NaN)

HarinaText == Content(TRUE, "Kilogramo", "1", 179796, 134847, NaN, 179796)

HarinaBare == Content(TRUE, "Kilogramo", "1", 179796, 134847, NaN, NaN)

RenderedEntries ==
  {Content(TRUE, u, "1", l, d, a, r) :
     u \in {"Kilo", "Onza"}, l \in {NaN, 0, 1000}, d \in {NaN, 0, 300, 500},
     a \in {NaN, 0, 400}, r \in {NaN, 600}}
  \cup {HarinaAttr, HarinaText, HarinaBare}

DtoArrays ==
  {<<>>, <<Dto("3X2", NaN)>>, <<Dto("3X2", 200)>>, <<Dto("3X2", 300)>>,
   <<Dto("2do al 50%", 225), Dto("3X2", 200)>>, <<Dto("25%DTO", 350)>>}

EndecaRecords ==
  {EndecaRecord(a, r, l, f, d) :
     a \in {0, 300}, r \in {0, 900}, l \in {0, 250, 400}, f \in {"Kilo", ""},
     d \in DtoArrays}

BffResults ==
  {BffResult(l, f, ps) :
     l \in {0, 3, 5}, f \in {"Litro", ""},
     ps \in {<<>>, <<0>>, <<2>>, <<2, 4>>, <<4, 2>>, <<6>>}}

Given(kind, value) == [kind |-> kind, value |-> value]

\* badges.js: extractProductData reads a rendered entry.
NormalizeEntry ==
  /\ input.kind = "entry" /\ output = NoOutput
  /\ output' = productOfEntry(input.value)
  /\ UNCHANGED <<input, pageVars, scrapeVars>>

\* api.js: parseEndecaRecord reads a dialect-A record.
NormalizeRecord ==
  /\ input.kind = "record" /\ output = NoOutput
  /\ output' = parseEndecaRecord(input.value)
  /\ UNCHANGED <<input, pageVars, scrapeVars>>

\* api.js: parseBffRecord reads a dialect-B result.
NormalizeResult ==
  /\ input.kind = "result" /\ output = NoOutput
  /\ output' = parseBffRecord(input.value)
  /\ UNCHANGED <<input, pageVars, scrapeVars>>

\* Amounts of up to nine digits: one, two and three groups of thousands.
Amounts ==
  {m * s : m \in 0..MaxMantissa, s \in {1, 10, 1000, 100000, 10000000}}
  \cup {134847, 179796}

\* utils.js: formatPrice writes an amount.
FormatPrice ==
  /\ input.kind = "amount" /\ output = NoOutput
  /\ output' = Given("text", formatPrice(input.value))
  /\ UNCHANGED <<input, pageVars, scrapeVars>>

\* utils.js: parsePrice reads the text back.
ParsePrice ==
  /\ output.kind = "text"
  /\ output' = Given("number", parsePrice(output.value))
  /\ UNCHANGED <<input, pageVars, scrapeVars>>

\* Products as parseEndecaRecord returns them: per-kilo prices 900 and 600, a
\* kilo product without unit price, one without any price, a per-litre price
\* and a product without unit category.
ProductPool ==
  {parseEndecaRecord(EndecaRecord(300, 900, 0, "Kilo", <<>>)),
   parseEndecaRecord(EndecaRecord(300, 900, 0, "Kilo", <<Dto("3X2", 200)>>)),
   parseEndecaRecord(EndecaRecord(700, 0, 0, "Kilo", <<>>)),
   parseEndecaRecord(EndecaRecord(0, 0, 0, "Kilo", <<>>)),
   parseEndecaRecord(EndecaRecord(300, 500, 0, "Litro", <<>>)),
   parseEndecaRecord(EndecaRecord(200, 900, 0, "", <<>>))}

ProductLists == UNION {[1..n -> ProductPool] : n \in 0..MaxProducts}

\* logger.js: groupAndSortProducts arranges the products of a retrieval.
GroupAndSort ==
  /\ input.kind = "products" /\ output = NoOutput
  /\ output' = Given("groups", groupAndSortProducts(input.value))
  /\ UNCHANGED <<input, pageVars, scrapeVars>>

(***************************************************************************)
(* api.js: the capture of the dialect-A URL from the network timeline      *)
(* (performance.getEntriesByType("resource")).                             *)
(***************************************************************************)
\* A URL text: whether new URL() parses it, whether its origin is the
\* page's, whether its path holds "/_/N-", whether its query has Nr and Nf;
\* id tells two texts apart.
Url(valid, sameOrigin, nPath, nr, nf, id) ==
  [valid |-> valid, sameOrigin |-> sameOrigin, nPath |-> nPath, Nr |-> nr, Nf |-> nf,
   id |-> id]

\* null, where a URL text is expected.
NoName == Url(FALSE, FALSE, FALSE, FALSE, FALSE, 0)

\* A PerformanceResourceTiming entry.
Entry(initiatorType, name) == [initiatorType |-> initiatorType, name |-> name]

\* isEndecaUrl: new URL() throws on a text it cannot parse, which is caught.
isEndecaUrl(rawUrl) ==
  IF ~rawUrl.valid THEN FALSE
  ELSE IF ~rawUrl.sameOrigin THEN FALSE
  ELSE rawUrl.nPath \/ rawUrl.Nr \/ rawUrl.Nf

\* A scan that returns the oldest matching entry.
findFirstEndecaUrl(perf) ==
  LET hits == {i \in 1..Len(perf.entries) :
                 /\ perf.entries[i].initiatorType \in {"xmlhttprequest", "fetch"}
                 /\ isEndecaUrl(perf.entries[i].name)}
  IN IF perf.throws \/ hits = {} THEN NoName ELSE perf.entries[SetMin(hits)].name

\* findEndecaUrlInPerformance: the scan runs from the last entry down; a
\* getEntriesByType that throws is caught and null is returned.
findEndecaUrlInPerformance(perf) ==
  LET hits == {i \in 1..Len(perf.entries) :
                 /\ perf.entries[i].initiatorType \in {"xmlhttprequest", "fetch"}
                 /\ isEndecaUrl(perf.entries[i].name)}
  IN IF perf.throws \/ hits = {} THEN NoName ELSE perf.entries[SetMax(hits)].name

\* refreshCapturedUrls lines 107-110: capturedEndecaUrl afterwards.
refreshCapturedEndecaUrl(perf, captured) ==
  LET latestEndeca == findEndecaUrlInPerformance(perf)
  IN IF latestEndeca # NoName THEN latestEndeca ELSE captured

\* Two searches of the page, and entries that are none: a script of the same
\* path, a request to another origin, a text that does not parse, and a
\* dialect-B request.
SearchByPath == Url(TRUE, TRUE, TRUE, FALSE, FALSE, 1)

SearchByQuery == Url(TRUE, TRUE, FALSE, TRUE, FALSE, 2)

EntryPool ==
  {Entry("fetch", SearchByPath), Entry("xmlhttprequest", SearchByQuery),
   Entry("script", Url(TRUE, TRUE, TRUE, FALSE, TRUE, 3)),
   Entry("fetch", Url(TRUE, FALSE, TRUE, TRUE, FALSE, 4)),
   Entry("fetch", Url(FALSE, TRUE, TRUE, FALSE, FALSE, 5)),
   Entry("fetch", Url(TRUE, FALSE, FALSE, FALSE, FALSE, 6))}

\* The timelines refresh() may find, one that cannot be read included, and
\* the candidate it finds captured: none, or the URL of an earlier search.
Timelines ==
  {[throws |-> FALSE, entries |-> es, captured |-> c] :
     es \in UNION {[1..n -> EntryPool] : n \in 0..MaxEntries},
     c \in {NoName, SearchByPath, Url(TRUE, TRUE, FALSE, FALSE, TRUE, 7)}}
  \cup {[throws |-> TRUE, entries |-> <<>>, captured |-> c] :
          c \in {NoName, SearchByPath}}

\* api.js: refreshCapturedUrls reads the timeline.
RefreshCapturedUrls ==
  /\ input.kind = "timeline" /\ output = NoOutput
  /\ output' = Given("captured", refreshCapturedEndecaUrl(input.value, input.value.captured))
  /\ UNCHANGED <<input, pageVars, scrapeVars>>

vars == <<sorterVars, observerVars, scrapeVars, normVars>>

\* The page after init(): an empty list, nothing pending.
PageIdle ==
  /\ container = TRUE
  /\ cards = <<>>
  /\ content = [w \in Wrappers |-> Blank]
  /\ badgeAttr = [w \in Wrappers |-> "none"]
  /\ isSorting = FALSE
  /\ currentFilter = Null
  /\ originalOrder = <<>>
  /\ originalOrderSaved = FALSE
  /\ uiFilter = Null
  /\ timers = {}
  /\ debounceTimer = 0
  /\ rafPending = FALSE
  /\ quiet = DEBOUNCE_MS
  /\ burstRuns = 0
  /\ burstNotifs = 0

Init == PageIdle /\ ScrapeIdle /\ NormIdle

Next ==
  \/ \E c \in SortKeys : SortBy(c)
  \/ Reset
  \/ AnimationFrame
  \/ \E t \in timers : Reconcile(t)
  \/ Tick
  \/ \E w \in LiveWrappers, c \in LivePool, i \in 1..(Len(cards) + 1) : AddCard(w, c, i)
  \/ \E w \in LiveWrappers : RemoveCard(w)
  \/ \E w \in LiveWrappers, c \in LivePool : ChangeContent(w, c)
  \/ RemoveContainer
  \/ RestoreContainer

\* The live page: the shopper, the timers and the external renderer.
Spec == Init /\ [][Next]_vars

\* The live page while the renderer only adds entries (the list grows as
\* the shopper scrolls, so its changes come to an end), on an event loop that
\* keeps running: time passes while a timer is pending and a due timer's
\* callback runs.
NextAppear ==
  \/ \E c \in SortKeys : SortBy(c)
  \/ Reset
  \/ AnimationFrame
  \/ \E t \in timers : Reconcile(t)
  \/ Tick
  \/ \E w \in LiveWrappers, c \in LivePool, i \in 1..(Len(cards) + 1) : AddCard(w, c, i)

\* A debounce timer is due: its callback can run, and running it changes timers.
TimerDue == \E t \in timers : t.kind = "debounce" /\ t.left = 0

\* Weak fairness of Tick and of the due timer's callback; the latter is
\* WF_vars(\E t \in timers : Reconcile(t)) with its ENABLED written as TimerDue.
SpecFair ==
  /\ Init /\ [][NextAppear]_vars
  /\ WF_vars(Tick)
  /\ ([]<>(~TimerDue) \/ []<><<\E t \in timers : Reconcile(t)>>_vars)

\* The live page on a displayed tab: a requested animation frame comes.
\* (WF_vars(AnimationFrame), with its ENABLED written as rafPending.)
SpecFrame ==
  /\ Init /\ [][Next]_vars
  /\ ([]<>(~rafPending) \/ []<><<AnimationFrame>>_vars)

(***************************************************************************)
(* A rendered list of any content, on which the shopper sorts and resets   *)
(* while the external renderer leaves it alone.                            *)
(***************************************************************************)
InitList ==
  /\ container = TRUE
  /\ \E k \in 0..MaxCards :
       /\ cards = [i \in 1..k |-> i]
       /\ \E f \in [1..k -> Pool] :
            content = [w \in Wrappers |-> IF w <= k THEN f[w] ELSE Blank]
  /\ badgeAttr = [w \in Wrappers |-> "none"]
  /\ isSorting = FALSE
  /\ currentFilter = Null
  /\ originalOrder = <<>>
  /\ originalOrderSaved = FALSE
  /\ uiFilter = Null
  /\ timers = {}
  /\ debounceTimer = 0
  /\ rafPending = FALSE
  /\ quiet = DEBOUNCE_MS
  /\ burstRuns = 0
  /\ burstNotifs = 0
  /\ ScrapeIdle
  /\ NormIdle

NextList ==
  \/ \E c \in SortKeys : SortBy(c)
  \/ Reset
  \/ AnimationFrame

SpecList == InitList /\ [][NextList]_vars

(***************************************************************************)
(* One retrieval call against a server that answers each request as it     *)
(* pleases, in any order within a group.                                   *)
(***************************************************************************)
NextScrape ==
  \/ StartRevistaGeneration
  \/ \E kind \in EndecaKinds, T \in TotalsA : EndecaFirstResponse(kind, T)
  \/ \E i \in inflight, kind \in EndecaKinds : EndecaPageResponse(i, kind)
  \/ BffPoll
  \/ \E kind \in BffKinds, T \in TotalsB(nrpp) : BffFirstResponse(kind, T)
  \/ \E i \in inflight, kind \in BffKinds : BffPageResponse(i, kind)
  \/ \E url \in BffTemplates : PageTraffic(url)

SpecScrape == Init /\ [][NextScrape]_vars

(***************************************************************************)
(* One dialect-A retrieval call, every page of which the server answers,   *)
(* while the shopper moves between listings.                               *)
(***************************************************************************)
NextListing ==
  \/ StartRevistaGeneration
  \/ \E T \in TotalsA : EndecaFirstResponse("page", T)
  \/ \E i \in inflight : EndecaPageResponse(i, "page")
  \/ \E l \in 1..MaxListings : Navigate(l)
  \/ EndecaTraffic

SpecListing == Init /\ [][NextListing]_vars

(***************************************************************************)
(* One function applied to one input, any input of the sets above.         *)
(***************************************************************************)
InitNorm ==
  /\ PageIdle /\ ScrapeIdle
  /\ output = NoOutput
  /\ \/ \E c \in RenderedEntries : input = Given("entry", c)
     \/ \E rec \in EndecaRecords : input = Given("record", rec)
     \/ \E res \in BffResults : input = Given("result", res)
     \/ \E x \in Amounts : input = Given("amount", x)
     \/ \E ps \in ProductLists : input = Given("products", ps)
     \/ \E tl \in Timelines : input = Given("timeline", tl)

NextNorm ==
  \/ NormalizeEntry
  \/ NormalizeRecord
  \/ NormalizeResult
  \/ FormatPrice
  \/ ParsePrice
  \/ GroupAndSort
  \/ RefreshCapturedUrls

SpecNorm == InitNorm /\ [][NextNorm]_vars

(***************************************************************************)
(* Properties of the sort engine on a rendered list (SpecList).            *)
(***************************************************************************)
\* The unit category freshly extracted from wrapper w's rendered content.
CategoryOf(w) == wrapperData(content[w]).unitType

\* adjustedUnitPrice(a) <= adjustedUnitPrice(b) and = , as rationals
\* listedUnitPrice * ratioNum / ratioDen.
AdjLeq(a, b) ==
  LET da == wrapperData(content[a])
      db == wrapperData(content[b])
  IN da.listedUnitPrice * da.ratioNum * db.ratioDen
       <= db.listedUnitPrice * db.ratioNum * da.ratioDen

AdjEq(a, b) == AdjLeq(a, b) /\ AdjLeq(b, a)

\* A sortBy(c) call that found the product list container.
SortByActs(c) == container /\ SortBy(c)

\* C1. Stable partition: after sortBy(c) every entry whose freshly extracted
\* category is c stands ahead of every entry without it, and the entries
\* without it keep the pairwise order they had right before the call.
C1_StablePartition ==
  [][\A c \in SortKeys : SortByActs(c) =>
       /\ \A a, b \in Range(cards') :
            (CategoryOf(a) = c /\ CategoryOf(b) # c) => Before(cards', a, b)
       /\ \A a, b \in Range(cards') :
            (CategoryOf(a) # c /\ CategoryOf(b) # c /\ Before(cards, a, b))
              => Before(cards', a, b)]_vars

\* A weight sort has moved the weight entry 3 ahead of the entries 1 and 2,
\* which have no weight price and kept their order.
C1_Witness ==
  /\ currentFilter = "weight" /\ isSorting
  /\ content[1] = LitroPlain /\ content[2] = GramoPlain /\ content[3] = KiloPromo
  /\ cards = <<3, 1, 2>>

\* C2. Within the matching partition made by sortBy(c) the adjusted unit prices
\* are non-decreasing, and entries of equal adjusted unit price keep the
\* order they had before the call.
C2_AscendingStable ==
  [][\A c \in SortKeys : SortByActs(c) =>
       \A a, b \in Range(cards') :
         (CategoryOf(a) = c /\ CategoryOf(b) = c /\ a # b) =>
            /\ Before(cards', a, b) => AdjLeq(a, b)
            /\ (AdjEq(a, b) /\ Before(cards, a, b)) => Before(cards', a, b)]_vars

\* A weight sort of <<750 (promo), 750, 400, litre>>: the 400 first, the two
\* 750 in their former order, the litre entry last.
C2_Witness ==
  /\ currentFilter = "weight" /\ isSorting
  /\ content[1] = KiloPromo /\ content[2] = KiloPlain
  /\ content[3] = KiloHalf /\ content[4] = LitroPlain
  /\ cards = <<3, 1, 2, 4>>

\* C3. Reset law: a reset() that follows any sequence of sortBy calls puts every
\* entry back at the index recorded before the first sortBy call, which on a
\* list the renderer left alone is the order the list was rendered in.
C3_ResetLaw ==
  [][(Reset /\ originalOrderSaved /\ container) =>
       /\ \A w \in Range(cards') : IndexOf(cards', w) - 1 = originalOrder[w]
       /\ cards' = [i \in 1..Len(cards) |-> i]]_vars

\* A reset has restored a list that every sortBy disturbs: a weight sort puts
\* entry 3 first and a volume sort entry 2, and a sort preceded the reset.
C3_Witness ==
  /\ originalOrderSaved /\ currentFilter = Null /\ isSorting
  /\ content[1] = KiloPromo /\ content[2] = LitroPlain /\ content[3] = KiloHalf
  /\ cards = <<1, 2, 3>>

\* C4. Idempotence: a sortBy(c) called right after a sortBy(c), the entries
\* not having changed in between, leaves the order as the first call made it.
C4_Idempotent ==
  [][\A c \in SortKeys : (currentFilter = c /\ SortByActs(c)) => cards' = cards]_vars

\* A weight sort has reordered a list that holds two entries of equal adjusted
\* unit price; the second sortBy("weight") is enabled here.
C4_Witness ==
  /\ currentFilter = "weight" /\ isSorting
  /\ content[1] = LitroPlain /\ content[2] = KiloPromo /\ content[3] = KiloPlain
  /\ cards = <<2, 3, 1>>
  /\ ENABLED SortBy("weight")

(***************************************************************************)
(* Properties of the observer on the live page (Spec).                     *)
(***************************************************************************)
\* A reset() call that restores the order.
ResetActs == originalOrderSaved /\ container /\ Reset

\* A step of the external renderer.
RendererStep ==
  \/ \E w \in LiveWrappers, c \in LivePool, i \in 1..(Len(cards) + 1) : AddCard(w, c, i)
  \/ \E w \in LiveWrappers : RemoveCard(w)
  \/ \E w \in LiveWrappers, c \in LivePool : ChangeContent(w, c)
  \/ RemoveContainer
  \/ RestoreContainer

\* The step arms, cancels or advances a timer.
TimerTouched == timers' # timers \/ debounceTimer' # debounceTimer

\* C5. Anti-loop: a change notification delivered while isSorting is set is
\* ignored and arms no debounce timer.  So the reordering and the badges of
\* sortBy and reset never arm it, whether the shopper or the debounce timer
\* started the call, and a renderer's change made while isSorting is set
\* does not arm it either: a sortBy made while no timer is pending is followed
\* by no reconcile run unless an external mutation comes later.
\* (Each implication is stated by its contrapositive: a step that touches the
\* timer is none of those steps.)
C5_AntiLoop ==
  [][/\ TimerTouched => ~((\E c \in SortKeys : SortByActs(c)) \/ ResetActs)
     /\ (isSorting /\ TimerTouched) => ~RendererStep
     /\ \A t \in timers : (t.left = 0 /\ currentFilter # Null /\ container /\ Reconcile(t))
          => (timers' = timers \ {t} /\ debounceTimer' = debounceTimer)]_vars

\* A sortBy has moved entries and injected badges, the frame that releases
\* isSorting has not come yet, and no debounce timer is pending.
C5_Witness ==
  /\ isSorting /\ rafPending /\ currentFilter = "weight"
  /\ Len(cards) = 2 /\ \A w \in Range(cards) : badgeAttr[w] = "done"
  /\ content[1] = LitroPlain /\ content[2] = KiloHalf /\ cards = <<2, 1>>
  /\ timers = {}

\* C6. Debounce: at most one debounce timer is pending; a reconcile run
\* happens only once DEBOUNCE_MS have passed since the last notification that
\* armed the timer, it is the first run since that notification, and a pending
\* timer goes away only by firing (a later notification replaces it).
C6_Debounce ==
  [][/\ Cardinality(timers') <= 1
     /\ \A t \in timers : Reconcile(t) => (quiet >= DEBOUNCE_MS /\ burstRuns = 0)
     /\ (timers # {} /\ timers' = {}) => \E t \in timers : Reconcile(t)]_vars

\* A burst of at least two notifications has been answered by one reconcile
\* run, a full quiet window after the last of them.
C6_Witness ==
  /\ burstNotifs = 2 /\ burstRuns = 1 /\ timers = {} /\ quiet = DEBOUNCE_MS

\* The observer has just armed the debounce timer for a change it saw while
\* isSorting was false and a category was selected.
Observed ==
  /\ currentFilter # Null /\ ~isSorting
  /\ quiet = 0 /\ burstRuns = 0
  /\ \E t \in timers : t.id = debounceTimer

\* Every entry of category c stands ahead of the others, in non-decreasing
\* adjusted unit price.
SortedBy(c) ==
  \A a, b \in Range(cards) :
    /\ (CategoryOf(a) = c /\ CategoryOf(b) # c) => Before(cards, a, b)
    /\ (CategoryOf(a) = c /\ CategoryOf(b) = c /\ a # b /\ Before(cards, a, b))
         => AdjLeq(a, b)

\* A sort has just run (isSorting is set again) and every entry present
\* stands in sorted position for the category selected; or the shopper has
\* reset meanwhile and no category is selected.
Integrated ==
  \/ isSorting /\ currentFilter # Null /\ SortedBy(currentFilter)
  \/ currentFilter = Null

\* C19. Whenever a change is observed while isSorting is false and a category
\* is selected, a sort of the selected category eventually runs again, once
\* the renderer has stopped adding entries for a quiet window, and integrates
\* the entries that appeared since the last sort in sorted position (unless
\* the shopper resets the order first).
C19_Reintegrate == Observed ~> Integrated

\* The renderer added the cheaper kilo entry behind the dearer one after a
\* weight sort; the callback has run and moved it ahead.
C19_Witness ==
  /\ currentFilter = "weight" /\ burstRuns = 1 /\ timers = {}
  /\ quiet = DEBOUNCE_MS /\ burstNotifs >= 1
  /\ Len(cards) = 2
  /\ \A w \in Range(cards) : CategoryOf(w) \in {"weight", "volume"}
  /\ SortedBy("weight")

(***************************************************************************)
(* Claims on the retrieval.                                                *)
(***************************************************************************)
\* The kind of the response the running dialect received for offset / page k.
ServedKind(k) == CHOOSE kind \in EndecaKinds \cup BffKinds : <<k, kind>> \in served

\* The products the response served for k carries and that parse, in API order.
PageProducts(k) ==
  IF dialect = "A"
  THEN LET data == EndecaResponse(ServedKind(k), k, totalNumRecs)
       IN IF data.container THEN SelectSeq(data.records, parsed) ELSE <<>>
  ELSE SelectSeq(BffResponse(ServedKind(k), k, totalNumRecs, nrpp).results, parsed)

\* The offsets / pages whose response has been appended to allProducts.
Appended ==
  {s[1] : s \in served} \ (IF pc \in {"endecaGroup", "bffGroup"} THEN Range(group) ELSE {})

RECURSIVE ConcatAscending(_)
ConcatAscending(keys) ==
  IF keys = {} THEN <<>>
  ELSE LET k == CHOOSE x \in keys : \A y \in keys : x <= y
           recs == PageProducts(k)
       IN [i \in 1..Len(recs) |-> recs[i].id] \o ConcatAscending(keys \ {k})

\* Some dialect-A response had a non-success status or no results container.
EndecaFailed ==
  dialect = "B" \/ (dialect = "A" /\ \E s \in served : s[2] \in {"status", "nocontainer"})

\* C7. Fallback: once a dialect-A response has a non-success status or lacks
\* the results container, the call that resolves does so in dialect B, with
\* exactly the dialect-B list (no dialect-A product in it), which is non-empty
\* when dialect B served at least one record.
C7_Fallback ==
  (pc = "resolved" /\ EndecaFailed)
    => /\ dialect = "B"
       /\ \A i \in 1..Len(allProducts) : allProducts[i][1] = "B"
       /\ allProducts = ConcatAscending({s[1] : s \in served})
       /\ (\E s \in served : PageProducts(s[1]) # <<>>) => allProducts # <<>>

\* The call has rejected with a message, and the caller shows it as an error.
Rejected ==
  /\ pc = "rejected"
  /\ error.text # ""
  /\ uiMessage = errorLabel(error)
  /\ allProducts = <<>>

\* The dialect-B list of T records in pages of n, less the first record of
\* every page served with a record whose parse throws, plus the record a
\* grown last page carries.
BffListLess(T, n, srv) ==
  LET kept(p) == ~(p[2] % n = 0 /\ <<(p[2] \div n) + 1, "malformed">> \in srv)
      last == IF <<totalPagesOf(T, n), "grown">> \in srv THEN T + 1 ELSE T
  IN SelectSeq([r \in 1..last |-> <<"B", r - 1>>], kept)

\* C8. A failure inside dialect B is terminal: a non-success status or a
\* response without results array on any dialect-B page, or no endpoint after
\* the bounded wait, rejects the call with a message the caller shows as an
\* error; dialect B never hands back to dialect A; and a call that resolves in
\* dialect B carries every page of the dialect-B list (less the records whose
\* parse throws), never a part of it.
C8_BffTerminal ==
  [][/\ dialect = "B" => dialect' = "B"
     /\ \A kind \in {"status", "invalid"} :
          (\/ \E T \in TotalsB(nrpp) : BffFirstResponse(kind, T)
           \/ \E i \in inflight : BffPageResponse(i, kind)) => Rejected'
     /\ (BffPoll /\ waited + stepMs >= timeoutMs) => Rejected'
     /\ (dialect = "B" /\ pc' = "resolved")
          => /\ \A s \in served' : s[2] \in {"page", "malformed", "grown"}
             /\ {s[1] : s \in served'} = 1..totalPagesOf(totalNumRecs', nrpp')
             /\ allProducts' = BffListLess(totalNumRecs', nrpp', served')]_vars

\* Dialect B rejected on an invalid page of its second group.
C8_Witness ==
  /\ Rejected /\ dialect = "B"
  /\ error = Msg("BFF response invalida en page: falta response.results", BFF_PARALLEL + 2)
  /\ Len(requests) >= BFF_PARALLEL + 2

\* C9. Whatever the order in which the responses of a group arrive, the
\* accumulated list is the concatenation of the pages appended so far in
\* increasing offset (dialect A) or page-number (dialect B) order.
C9_RequestOrder ==
  pc \in {"endecaGroup", "bffGroup", "resolved"}
    => allProducts = ConcatAscending(Appended)

\* A two-group dialect-A call resolved after a response overtook an earlier request.
C9_Witness ==
  /\ pc = "resolved" /\ dialect = "A" /\ outOfOrder
  /\ Len(requests) > ENDeca_PARALLEL + 1
  /\ Len(allProducts) = totalNumRecs

\* The offsets dialect A must request for a total of T.
OffsetsFor(T) == {o \in 0..T : o % ENDeca_BATCH = 0 /\ (o = 0 \/ o < T)}

\* The requests issued are offset 0 and every multiple of 50 below the total,
\* each once.
ExactRequests ==
  /\ Len(requests) = Cardinality(OffsetsFor(totalNumRecs))
  /\ Range(requests) = {<<"A", o>> : o \in OffsetsFor(totalNumRecs)}

\* Every response had a success status and carried the results container.
EveryRequestSucceeded == \A s \in served : s[2] \in {"page", "malformed"}

\* The records served whose parse throws.
Unparseable == {s \in served : s[2] = "malformed" /\ s[1] < totalNumRecs}

\* C10 as stated: a dialect-A call that resolves has requested exactly offset 0
\* and the multiples of 50 below T, and returns T products when every request
\* succeeded.
C10_Original ==
  (pc = "resolved" /\ dialect = "A")
    => /\ ExactRequests
       /\ EveryRequestSucceeded => Len(allProducts) = totalNumRecs

\* C10. Pagination coverage: no request is issued twice; a dialect-A call that
\* resolves has requested exactly offset 0 and every multiple of 50 strictly
\* below T, each once; when every request succeeded it returns the T records
\* less those whose parse throws, so T products when every record parses.
C10_Coverage ==
  /\ \A i, j \in 1..Len(requests) : i # j => requests[i] # requests[j]
  /\ (pc = "resolved" /\ dialect = "A")
       => /\ ExactRequests
          /\ EveryRequestSucceeded
               => Len(allProducts) = totalNumRecs - Cardinality(Unparseable)

\* T = 80: one offset-0 request, one offset-50 request, 80 products.
C10_Witness ==
  /\ pc = "resolved" /\ dialect = "A" /\ totalNumRecs = ENDeca_BATCH + 30
  /\ requests = <<<<"A", 0>>, <<"A", ENDeca_BATCH>>>>
  /\ Len(allProducts) = ENDeca_BATCH + 30

\* The ranks of the records the page at offset / page number k carries.
PageRanks(k) ==
  IF dialect = "A" THEN k..(Min(k + ENDeca_BATCH, totalNumRecs) - 1)
  ELSE ((k - 1) * nrpp)..
         (Min(k * nrpp, totalNumRecs + (IF <<k, "grown">> \in served THEN 1 ELSE 0)) - 1)

\* The rank of the first record of the page at k.
FirstRank(k) == IF dialect = "A" THEN k ELSE (k - 1) * nrpp

\* allProducts holds, in catalogue order, every record of every page served
\* with records, except the record whose parse threw.
ReturnedAllButThrowing ==
  /\ \A i \in 1..(Len(allProducts) - 1) : allProducts[i][2] < allProducts[i + 1][2]
  /\ \A s \in served : s[2] \in {"page", "malformed", "grown"} =>
       \A r \in PageRanks(s[1]) :
         (<<dialect, r>> \in Range(allProducts))
           <=> ~(s[2] = "malformed" /\ r = FirstRank(s[1]))

\* A response carrying a record whose parse throws arrives.
MalformedResponse ==
  \/ \E T \in TotalsA : EndecaFirstResponse("malformed", T)
  \/ \E i \in inflight : EndecaPageResponse(i, "malformed")
  \/ \E T \in TotalsB(nrpp) : BffFirstResponse("malformed", T)
  \/ \E i \in inflight : BffPageResponse(i, "malformed")

Normalized == output.kind = "product"

\* C12: every product of any of the three normalizers has
\* 0 < discountRatio <= 1, and adjustedUnitPrice <= referenceUnitPrice
\* whenever referenceUnitPrice > 0.
C12_MonotonicBound ==
  Normalized =>
    /\ 0 < output.ratioNum /\ output.ratioNum <= output.ratioDen
    /\ output.referencePrice > 0 =>
         output.adjNum <= output.referencePrice * output.adjDen

\* C13 as stated: the entry paid $1.348,47 with unit price $1.797,96 and no
\* regular price anywhere is normalized with discountRatio 1348.47/1797.96
\* and adjusted unit price $1.348,47.
C13_Original ==
  (input = Given("entry", HarinaBare) /\ Normalized) =>
    /\ output.ratioNum * 179796 = output.ratioDen * 134847
    /\ output.adjNum = 134847 * output.adjDen

\* C13 amended: with the regular price $1.797,96 in the data attribute or in
\* the "Precio Regular" text the entry gets discountRatio 1348.47/1797.96 and
\* adjusted unit price $1.348,47; with no regular price it gets ratio 1 and
\* keeps the unit price $1.797,96.
C13_Example ==
  /\ (input \in {Given("entry", HarinaAttr), Given("entry", HarinaText)} /\ output # NoOutput) =>
       /\ Normalized
       /\ output.ratioNum * 179796 = output.ratioDen * 134847
       /\ output.adjNum = 134847 * output.adjDen
  /\ (input = Given("entry", HarinaBare) /\ output # NoOutput) =>
       /\ Normalized
       /\ output.ratioNum = output.ratioDen
       /\ output.adjNum = 179796 * output.adjDen

C13_Witness ==
  /\ input = Given("entry", HarinaText)
  /\ Normalized
  /\ output.ratioNum = 3 /\ output.ratioDen = 4
  /\ output.adjNum = 134847 * output.adjDen

HasDeal3X2 ==
  /\ input.kind = "record"
  /\ \E i \in 1..Len(input.value.dto) : input.value.dto[i].textoDescuento = "3X2"

Positive(x) == x # NaN /\ x > 0

\* C15: the rendered-entry normalizer takes the reference price from the data
\* attribute, else from the "Precio Regular" text, else equal to the paid
\* price; discountRatio = paid / reference when both are positive and 1
\* otherwise; adjustedUnitPrice = listed unit price * discountRatio.
C15_RenderedPrecedence ==
  (input.kind = "entry" /\ Normalized) =>
    LET c == input.value
        reference == IF Positive(c.attr) THEN c.attr
                     ELSE IF Positive(c.regText) THEN c.regText ELSE c.displayed
        both == Positive(c.displayed) /\ Positive(reference)
    IN /\ both => output.ratioNum * reference = output.ratioDen * c.displayed
       /\ ~both => output.ratioNum = output.ratioDen
       /\ output.adjNum * output.ratioDen = output.adjDen * c.listed * output.ratioNum

C15_Witness ==
  /\ input = Given("entry", Content(TRUE, "Kilo", "1", 1000, 300, 0, 600))
  /\ Normalized
  /\ output.ratioNum = 1 /\ output.ratioDen = 2
  /\ output.adjNum = 500 * output.adjDen

\* C16: round trip: for every non-negative amount x with at most two decimal
\* digits, parsePrice(formatPrice(x)) = x.
C16_RoundTrip ==
  (input.kind = "amount" /\ output.kind = "number") => output.value = input.value

C16_Witness ==
  /\ input = Given("amount", 120 * 10000000)
  /\ output = Given("number", 1200000000)

\* The text of the README example and of a three-group amount.
C16_Texts ==
  /\ formatPrice(134847) = <<"$", "1", ".", "3", "4", "8", ",", "4", "7">>
  /\ formatPrice(5) = <<"$", "0", ",", "0", "5">>
  /\ formatPrice(1200000000)
       = <<"$", "1", "2", ".", "0", "0", "0", ".", "0", "0", "0", ",", "0", "0">>
  /\ parsePrice(<<"8", "9", "9", ",", "0", "0">>) = 89900

RECURSIVE Flatten(_)
Flatten(groups) ==
  IF groups = <<>> THEN <<>> ELSE Head(groups).products \o Flatten(Tail(groups))

Count(s, x) == Cardinality({i \in 1..Len(s) : s[i] = x})

Grouped == input.kind = "products" /\ output.kind = "groups"

\* The listing keeps every product, as many times as it was given.
Retained ==
  \A p \in Range(input.value) : Count(Flatten(output.value), p) = Count(input.value, p)

\* C17: a product without unit category, or whose reference unit price is 0,
\* is never ordered among the products of a unit category, and the grouping
\* drops no product.
C17_ExcludedRetained ==
  Grouped =>
    /\ \A i \in 1..Len(output.value) :
         output.value[i].unitType # Null =>
           \A p \in Range(output.value[i].products) :
             p.unitType # Null /\ p.referencePrice > 0
    /\ Retained

(***************************************************************************)
(* Claims about the progress reports of a retrieval (SpecScrape).          *)
(***************************************************************************)
\* The response to the first request of the running dialect has been parsed.
FirstPageParsed ==
  /\ pc \in {"endecaFirst", "bffFirst"} /\ dialect' = dialect
  /\ pc' \in {"endecaGroup", "bffGroup", "resolved"}

\* The last response of the group in flight has arrived and none has thrown.
GroupCompleted ==
  /\ pc \in {"endecaGroup", "bffGroup"} /\ Cardinality(inflight) = 1
  /\ served' # served
  /\ dialect' = dialect /\ pc' # "rejected"

\* C18 as stated: progressCallback is invoked when the first page is parsed
\* (with 0 before the parse and the page's count after it) and once after
\* each group, each time with the number of products accumulated so far and
\* the total of the running dialect; no other step invokes it.
C18_Original ==
  [][/\ FirstPageParsed =>
          progressCalls' = <<<<0, totalNumRecs'>>, <<Len(allProducts'), totalNumRecs'>>>>
     /\ GroupCompleted => progressCalls' = <<<<Len(allProducts'), totalNumRecs'>>>>
     /\ ~(FirstPageParsed \/ GroupCompleted) => progressCalls' = <<>>]_vars

\* C18 amended: as above, but after a dialect-B group the number passed is
\* the number accumulated so far capped at the total.
C18_Progress ==
  [][/\ FirstPageParsed =>
          progressCalls' = <<<<0, totalNumRecs'>>, <<Len(allProducts'), totalNumRecs'>>>>
     /\ GroupCompleted =>
          progressCalls' =
            <<<<IF dialect = "B" THEN Min(Len(allProducts'), totalNumRecs')
                ELSE Len(allProducts'),
                totalNumRecs'>>>>
     /\ ~(FirstPageParsed \/ GroupCompleted) => progressCalls' = <<>>]_vars

\* A dialect-B call whose last page carried one product more than the total:
\* the last report is total/total with total + 1 products accumulated.
C18_Witness ==
  /\ pc = "resolved" /\ dialect = "B" /\ totalNumRecs = defaultNrpp + 1
  /\ Len(allProducts) = totalNumRecs + 1
  /\ progressCalls = <<<<totalNumRecs, totalNumRecs>>>>

\* The requests of one dialect are issued in increasing offset / page order.
IncreasingRequests ==
  \A i \in 1..(Len(requests) - 1) :
    requests[i][1] = requests[i + 1][1] => requests[i][2] < requests[i + 1][2]

\* A group of requests is issued in this step.
IssuesGroup == pc' \in {"endecaGroup", "bffGroup"} /\ Len(requests') > Len(requests)

\* C20: at most 3 page requests are in flight for dialect A and at most 6 for
\* dialect B; pages are requested in increasing offset / page order; and the
\* requests of a group are issued only when every request issued before has
\* completed (the step that issues them receives the last response awaited).
C20_BoundedGroups ==
  [][/\ pc' = "endecaGroup" => (dialect' = "A" /\ Cardinality(inflight') <= 3)
     /\ pc' = "bffGroup" => (dialect' = "B" /\ Cardinality(inflight') <= 6)
     /\ pc' \notin {"endecaGroup", "bffGroup"} => inflight' = {}
     /\ IncreasingRequests'
     /\ IssuesGroup =>
          /\ Cardinality(inflight) <= 1
          /\ served' # served
          /\ Cardinality(inflight') = Len(requests') - Len(requests)]_vars

\* The second group of a dialect-A call is in flight, and so is a full
\* dialect-B group in another call.
C20_Witness ==
  /\ pc = "endecaGroup" /\ dialect = "A"
  /\ Len(requests) > ENDeca_PARALLEL + 1
  /\ inflight # {}
  /\ Cardinality(served) = ENDeca_PARALLEL + 1

C20_WitnessB ==
  /\ pc = "bffGroup" /\ Cardinality(inflight) = BFF_PARALLEL
  /\ Len(requests) >= BFF_PARALLEL + 1

(***************************************************************************)
(* Further properties of the sort engine and the observer (Spec).          *)
(***************************************************************************)
\* A reconcile run that finds no category selected.
AnnotationRun(t) == currentFilter = Null /\ Reconcile(t)

\* A reset() called in this state ends with no category selected, in the
\* sorter and on the panel.  (A call that changes nothing takes no step, so
\* its outcome is read off the state it is called in.)
ResetClears == ENABLED (Reset /\ currentFilter' = Null /\ uiFilter' = Null)

\* C21 as stated: every reset() that follows a sortBy clears
\* currentCategory, the annotation runs sort nothing, and a reset() before any
\* sortBy changes nothing.
C21_Original ==
  /\ [](originalOrderSaved => ResetClears)
  /\ [][/\ \A t \in timers : AnnotationRun(t) =>
            UNCHANGED <<cards, isSorting, currentFilter, rafPending>>
        /\ (~originalOrderSaved /\ Reset) =>
            UNCHANGED <<cards, badgeAttr, isSorting, currentFilter>>]_vars

\* C21. reset() clears currentCategory: after a reset() that follows at least
\* one sortBy and finds the product list container, currentCategory is null
\* (and the panel shows no category), so the reconcile runs that come later
\* annotate and sort nothing; a reset() issued before any sortBy has been
\* performed changes nothing (order, badges, busy, currentCategory and the
\* timers are untouched).
C21_ResetClears ==
  [][/\ ResetActs => (currentFilter' = Null /\ uiFilter' = Null)
     /\ \A t \in timers : AnnotationRun(t) =>
          UNCHANGED <<cards, isSorting, currentFilter, rafPending>>
     /\ (~originalOrderSaved /\ Reset) =>
          UNCHANGED <<cards, badgeAttr, isSorting, currentFilter, timers,
                      debounceTimer, rafPending, uiFilter>>]_vars

\* A reset has followed a sort, and a later reconcile run has annotated an
\* entry while no category is selected.
C21_Witness ==
  /\ originalOrderSaved /\ currentFilter = Null /\ container
  /\ \E w \in Range(cards) : badgeAttr[w] = "done"

\* Entry w carries the processed marker (BADGE_ATTR).
Annotated(w) == badgeAttr[w] # "none"

\* C22. A reconcile run that finds currentCategory null gives a badge to
\* entries without the processed marker only: the order of the entries and
\* the marker of every annotated entry stay as they were, an entry whose
\* marker changes is a rendered entry that had none, and a run that finds
\* every entry annotated touches nothing (so it notifies no change and arms
\* no timer).
C22_AnnotateNewOnly ==
  [][\A t \in timers : AnnotationRun(t) =>
       /\ cards' = cards /\ content' = content
       /\ \A w \in Wrappers :
            /\ Annotated(w) => badgeAttr'[w] = badgeAttr[w]
            /\ badgeAttr'[w] # badgeAttr[w] => (w \in Range(cards) /\ ~Annotated(w))
       /\ (\A w \in Range(cards) : Annotated(w)) =>
            (timers' = timers \ {t} /\ debounceTimer' = debounceTimer)]_vars

\* No sort has ever run and two entries carry a badge: a reconcile run has
\* just annotated, and its own insertion has armed the debounce timer.
C22_Witness ==
  /\ ~originalOrderSaved /\ currentFilter = Null /\ ~isSorting
  /\ Len(cards) = 2 /\ \A w \in Range(cards) : badgeAttr[w] = "done"
  /\ quiet = 0 /\ burstNotifs = 1 /\ timers # {}

(***************************************************************************)
(* Further properties of the normalizers (SpecNorm).                       *)
(***************************************************************************)
\* The effective per-unit prices the deal descriptors of record rec state.
EffectivePrices(rec) ==
  {pd \in {rec.dto[i].precioDescuento : i \in 1..Len(rec.dto)} : pd # NaN /\ pd > 0}

\* Step 1 of the precedence applies to rec: the lowest effective price of its
\* deal descriptors is strictly below the current price.
ByDeal(rec) ==
  EffectivePrices(rec) # {} /\ SetMin(EffectivePrices(rec)) < rec.activePrice

\* The output's discountRatio equals num / den.
RatioIs(num, den) == output.ratioNum * den = output.ratioDen * num

\* C23 as stated: step 2 applies whenever a list price is present and
\* exceeds the current price.
C23_Original ==
  (input.kind = "record" /\ Normalized) =>
    LET rec == input.value
    IN IF ByDeal(rec) THEN RatioIs(SetMin(EffectivePrices(rec)), rec.activePrice)
       ELSE IF rec.listPrice > 0 /\ rec.listPrice > rec.activePrice
       THEN RatioIs(rec.activePrice, rec.listPrice)
       ELSE RatioIs(1, 1)

\* C23. parseEndecaRecord resolves discountRatio in strict precedence: (1) if
\* the lowest explicit effective per-unit price of the deal descriptors is
\* strictly below the current price, ratio = that price / current price;
\* (2) otherwise, if the current price is positive and a list price is present
\* and exceeds it, ratio = current / list; (3) otherwise ratio = 1 (a record
\* without current price included).  Step 2 is not applied when step 1 gave
\* a ratio below 1.
C23_Precedence ==
  (input.kind = "record" /\ Normalized) =>
    LET rec == input.value
    IN IF ByDeal(rec) THEN RatioIs(SetMin(EffectivePrices(rec)), rec.activePrice)
       ELSE IF rec.activePrice > 0 /\ rec.listPrice > rec.activePrice
       THEN RatioIs(rec.activePrice, rec.listPrice)
       ELSE RatioIs(1, 1)

\* A record whose deal gives 200 / 300 and whose list price would give
\* 300 / 400: the deal decides.
C23_Witness ==
  /\ input = Given("record", EndecaRecord(300, 900, 400, "Kilo", <<Dto("3X2", 200)>>))
  /\ Normalized
  /\ RatioIs(2, 3)

\* The tax-inclusive entries of a dialect-B result's price array, in
\* hundredths: priceWithoutTax * 1.21 of every entry that has a positive one.
TaxInclusive(result) ==
  {result.prices[i] * 121 : i \in {j \in 1..Len(result.prices) : result.prices[j] > 0}}

\* The nominal list price of a dialect-B result, in hundredths (0: none).
NominalList(result) == IF result.listPrice > 0 THEN result.listPrice * 100 ELSE 0

\* The discountRatio is lowest entry / current price exactly when there is an
\* entry and the lowest one is strictly below the current price, else 1.
RatioByLowest(entries, current) ==
  IF entries # {} /\ SetMin(entries) < current
  THEN RatioIs(SetMin(entries), current) /\ ~RatioIs(1, 1)
  ELSE RatioIs(1, 1)

\* C24 as stated: the current price is the maximum of the nominal list
\* price and the tax-inclusive entries.
C24_Original ==
  (input.kind = "result" /\ Normalized) =>
    LET entries == TaxInclusive(input.value)
        current == SetMax(entries \cup {NominalList(input.value)})
    IN /\ output.activePrice = current
       /\ RatioByLowest(entries, current)

\* C24. parseBffRecord sets the current price to the nominal list price when
\* that is positive, else to the greatest tax-inclusive price-array entry
\* (tax-exclusive amount x 1.21; 0 when there is none), and sets discountRatio
\* = (lowest tax-inclusive entry) / (current price) exactly when that lowest
\* entry is strictly below the current price, and 1 otherwise.
C24_CurrentPrice ==
  (input.kind = "result" /\ Normalized) =>
    LET entries == TaxInclusive(input.value)
        list == NominalList(input.value)
        current == IF list > 0 THEN list ELSE SetMax(entries \cup {0})
    IN /\ output.activePrice = current
       /\ RatioByLowest(entries, current)

\* List price 3.00 with entries 2.00 and 4.00 before tax: the current price
\* is 3.00, below the entry 4.84, and the ratio is 2.42 / 3.00.
C24_Witness ==
  /\ input = Given("result", BffResult(3, "Litro", <<2, 4>>))
  /\ Normalized
  /\ output.activePrice = 300 /\ RatioIs(242, 300)

\* The entries of timeline tl that satisfy the dialect-A predicate: a request
\* made by XMLHttpRequest or fetch, to the page's origin, whose path holds
\* "/_/N-" or whose query has Nr or Nf.
EndecaEntries(tl) ==
  {i \in 1..Len(tl.entries) :
     LET e == tl.entries[i]
     IN /\ e.initiatorType \in {"xmlhttprequest", "fetch"}
        /\ e.name.valid /\ e.name.sameOrigin
        /\ (e.name.nPath \/ e.name.Nr \/ e.name.Nf)}

\* C25. After refreshCapturedUrls() the dialect-A candidate is the most recent
\* timeline entry that satisfies the dialect-A predicate whenever there is
\* one (a newer search supersedes an older one); when there is none, or the
\* timeline cannot be read, the previous candidate is kept; the call never
\* raises, and a second call on the unchanged timeline changes nothing.
C25_LatestSearch ==
  (input.kind = "timeline" /\ output # NoOutput) =>
    LET tl == input.value
        hits == EndecaEntries(tl)
    IN /\ output.kind = "captured"
       /\ (~tl.throws /\ hits # {}) => output.value = tl.entries[SetMax(hits)].name
       /\ (tl.throws \/ hits = {}) => output.value = tl.captured
       /\ refreshCapturedEndecaUrl(tl, output.value) = output.value

\* The search by path was captured; the timeline holds it again, then the
\* newer search by query, then a request that is no search: the newer search
\* is the candidate.
C25_Witness ==
  /\ input.kind = "timeline" /\ output.kind = "captured"
  /\ input.value.captured = SearchByPath
  /\ Len(input.value.entries) = 3
  /\ input.value.entries[1].name = SearchByPath
  /\ input.value.entries[2].name = SearchByQuery
  /\ ~isEndecaUrl(input.value.entries[3].name)
  /\ output.value = SearchByQuery

(***************************************************************************)
(* The release of isSorting (SpecFrame).                                   *)
(***************************************************************************)
\* C26. Busy is always eventually released: while isSorting is set the
\* animation frame that clears it is pending, whichever call set it (the
\* shopper's sortBy or reset, or the sort the debounce timer starts while the
\* release of an earlier call is still pending); that frame leaves isSorting
\* false; and isSorting never stays true forever.
C26_BusyReleased ==
  /\ [](isSorting => rafPending)
  /\ [][AnimationFrame => ~isSorting']_vars
  /\ (isSorting ~> ~isSorting)

\* A sort holds isSorting, the frame that releases it is pending, and the
\* debounce timer is due: its sort starts before the release.
C26_Witness ==
  /\ isSorting /\ rafPending /\ currentFilter # Null /\ container
  /\ TimerDue /\ cards # <<>>

(***************************************************************************)
(* The base URL of a dialect-A retrieval call (SpecListing).               *)
(***************************************************************************)
\* C27. Within one dialect-A retrieval call every page request, that of
\* offset 0 and those of the later offsets, is built from the same base
\* endpoint URL, whatever the timeline records and wherever the page address
\* moves while the call is in progress; the result a call returns never holds
\* pages of two listings.
C27_SameBase ==
  /\ dialect = "A" => Cardinality(bases) <= 1
  /\ (dialect = "A" /\ pc = "resolved") => Cardinality({b[2] : b \in bases}) <= 1

(***************************************************************************)
(* Reordering only (SpecList).                                             *)
(***************************************************************************)
\* No entry stands twice in the sequence s.
NoDuplicate(s) == \A i, j \in 1..Len(s) : s[i] = s[j] => i = j

\* C28. sortBy and reset only reorder: for every category and every list
\* content the entries rendered after the call are exactly those rendered
\* before it, each once and with the content it had, so the new order is a
\* permutation of the old one.
C28_Permutation ==
  [][((\E c \in SortKeys : SortBy(c)) \/ Reset) =>
       /\ Range(cards') = Range(cards)
       /\ Len(cards') = Len(cards)
       /\ NoDuplicate(cards')
       /\ content' = content]_vars

\* A volume sort has moved the litre entry 2 ahead of the entries 1 and 3.
C28_Witness ==
  /\ currentFilter = "volume" /\ isSorting
  /\ content[1] = KiloPlain /\ content[2] = LitroPlain /\ content[3] = GramoPlain
  /\ cards = <<2, 1, 3>>

(***************************************************************************)
(* Quiescence of the observer and its debounce timer (SpecFair).           *)
(***************************************************************************)
\* A step from outside the loop: the renderer changes the list or the
\* shopper calls sortBy or reset.
Disturb ==
  \/ \E c \in SortKeys : SortBy(c)
  \/ Reset
  \/ \E w \in LiveWrappers, c \in LivePool, i \in 1..(Len(cards) + 1) : AddCard(w, c, i)

LeftAlone ==
  UNCHANGED <<isSorting, currentFilter, originalOrder, originalOrderSaved, badgeAttr,
              uiFilter, rafPending>>

\* C30. When the product list container is absent, sortBy (of any category)
\* and reset return without changing isSorting, currentFilter or
\* originalOrder, without touching a badge and without invoking the
\* completion callback; so the filter the panel highlights is currentFilter
\* in every state.  (Such a call takes no step: its outcome is read off the
\* state it is made in.)
C30_AbsentContainer ==
  /\ ~container =>
       /\ \A c \in SortKeys : ENABLED (SortBy(c) /\ LeftAlone)
       /\ ENABLED (Reset /\ LeftAlone)
  /\ uiFilter = currentFilter

\* The container went away after a weight sort, whose frame has passed; the
\* panel highlights "weight".
C30_Witness ==
  /\ ~container /\ originalOrderSaved /\ ~isSorting
  /\ currentFilter = "weight" /\ uiFilter = "weight"

====
